---------------------------- MODULE Spec2Model ----------------------------
(***************************************************************************)
(* VK IP Panel (G3ndalf/vkpanel): the fleet status and floating-IP         *)
(* reconciliation engine.                                                  *)
(*                                                                         *)
(* The module models                                                       *)
(*   - the remote status reader get_script_status (src/app/ssh.py),        *)
(*   - the two inventory readers get_project_floating_ips                  *)
(*     (src/app/openstack.py) and get_floating_ips_via_cli                 *)
(*     (src/app/ssh.py),                                                   *)
(*   - the whole-document store load_data / save_data (src/app/data.py),   *)
(*   - the three fan-out refresh handlers and the cache readers of         *)
(*     src/app/main.py,                                                    *)
(*   - the account script src/add_projects.py, a second writer of the      *)
(*     document.                                                           *)
(*                                                                         *)
(* FnSpec applies the readers to every input of a bounded input space.     *)
(* Spec is the request-level state machine: the persisted document, the    *)
(* handler in progress and its thread pool.  LiveSpec adds the fairness    *)
(* of the pool's worker threads.                                           *)
(***************************************************************************)
EXTENDS Integers, Sequences, FiniteSets, TLC

VARIABLES
    disk,      \* DATA_FILE: [file |-> "absent" | "ok" | "truncated", doc |-> its document]
    pc,        \* the refresh handler in progress: "idle", "status", "cloud" or "projects"
    data,      \* the handler's in-memory document (load_data's return value)
    tasks,     \* the fan-out's submitted targets, in submission order
    started,   \* number of targets a pool worker has picked up so far
    inflight,  \* indexes of the targets whose call is running on a worker
    results,   \* results[i], i in its domain: the outcome of target i's finished call
    replies,   \* replies[i]: what the remote side answered to target i's call
    resp,      \* the response of the last handler; op "none" while a refresh is running
    io,        \* what that handler used: "load", "save", "ssh", "http"
    requests,  \* number of requests served so far: the clock of the time stamps
    fnName,    \* FnSpec: the reader under test
    fnArg,     \* FnSpec: its input (indexes into the reply tables)
    fnOut,     \* FnSpec: <<>> before the call, <<return value>> after it
    fnRaised,  \* FnSpec: <<>>, or <<message>> when the call raised
    fnFile,    \* FnSpec: the credential file on the remote host, a list of lines
    fnRead     \* FnSpec: <<>>, or <<the status read after change_script_project>>

sysVars == <<disk, pc, data, tasks, started, inflight, results, replies, resp, io, requests>>
fnVars == <<fnName, fnArg, fnOut, fnRaised, fnFile, fnRead>>
vars == <<disk, pc, data, tasks, started, inflight, results, replies, resp, io, requests,
          fnName, fnArg, fnOut, fnRaised, fnFile, fnRead>>

(***************************************************************************)
(* Python values.  None is a value of its own; a JSON value is a tagged    *)
(* record, an object keeps its members in document order (a Python dict    *)
(* iterates in insertion order).                                           *)
(***************************************************************************)
None == "@None"

JNull == [t |-> "null"]
JNum(n) == [t |-> "num", n |-> n]
JStr(s) == [t |-> "str", s |-> s]
JList(items) == [t |-> "list", items |-> items]
JObj(kv) == [t |-> "obj", kv |-> kv]
EmptyObj == JObj(<<>>)

IsObj(v) == v.t = "obj"

\* k in d
JHas(d, k) == \E i \in 1..Len(d.kv) : d.kv[i][1] = k

\* d.get(k, default) on a dict d
JGet(d, k, default) ==
    IF JHas(d, k)
    THEN d.kv[CHOOSE i \in 1..Len(d.kv) : d.kv[i][1] = k][2]
    ELSE default

\* list(d.values())
JValues(d) == [i \in 1..Len(d.kv) |-> d.kv[i][2]]

\* bool(v)
Truthy(v) ==
    CASE v.t = "null" -> FALSE
      [] v.t = "num" -> v.n # 0
      [] v.t = "str" -> v.s # ""
      [] v.t = "list" -> Len(v.items) > 0
      [] v.t = "obj" -> Len(v.kv) > 0

\* the Python value of a JSON scalar as it is stored in a result dict
PyVal(v) ==
    CASE v.t = "null" -> None
      [] v.t = "num" -> v.n
      [] v.t = "str" -> v.s
      [] OTHER -> v

\* bool(x) of a str | None field
NonEmpty(x) == x # None /\ x # ""

RECURSIVE SumSeq(_)
SumSeq(s) == IF s = <<>> THEN 0 ELSE Head(s) + SumSeq(Tail(s))

(***************************************************************************)
(* What the remote host answers.  ssh_connect and ssh_exec log and         *)
(* re-raise (ssh.py 38-40, 53-55): a call either raises with a message or  *)
(* returns; ssh_exec returns (exit code, stdout, stderr).  Text is kept as *)
(* the pair of its stripped body and a flag for surrounding whitespace,    *)
(* so that str.strip() is a real operation.                                *)
(***************************************************************************)
Raised(msg) == [raised |-> TRUE, msg |-> msg]
Text(body, padded) == [body |-> body, padded |-> padded]
Strip(text) == text.body

ConnectOk == [raised |-> FALSE]
Exec(code, out, err) == [raised |-> FALSE, code |-> code, out |-> out, err |-> err]

\* a line KEY=<quote>value<quote> of the credential file
EnvLine(key, quote, value) == [key |-> key, quote |-> quote, value |-> value]
\* s.strip().strip('"').strip("'") on the strings of the model: those that begin
\* or end with white space or a quote character lose them, the others are kept
StripQuotes(s) ==
    CASE s = "dev'" -> "dev"
      [] s = "\"prod\"" -> "prod"
      [] s = " lab" -> "lab"
      [] OTHER -> s

\* line.split("=", 1)[1].strip().strip('"').strip("'"): the text after the "=" is
\* the value between the line's quotes
EnvValue(line) == StripQuotes(line.value)

\* stdout of `cat state_file`: blank, or text that json.loads rejects, or a document
NoText == [blank |-> TRUE, valid |-> FALSE, doc |-> JNull]
BadJson == [blank |-> FALSE, valid |-> FALSE, doc |-> JNull]
Json(doc) == [blank |-> FALSE, valid |-> TRUE, doc |-> doc]


(***************************************************************************)
(* get_script_status (ssh.py 58-142).  The argument is the remote side of  *)
(* one call: the answer to the connect and to each of the three commands   *)
(* of the session.  Every statement of the body is inside one              *)
(* try/except Exception, whose handler only sets result["error"]; what     *)
(* was assigned before the exception stays assigned.                       *)
(***************************************************************************)
DefaultStatus ==
    [running |-> FALSE, error |-> None, state |-> None, cycles |-> 0,
     success |-> 0, last_ip |-> None, account |-> None, project |-> None]

\* a faulty handler that swallows the exception without recording it
Swallowed(result, msg) == result

\* except Exception as e: result["error"] = str(e)   (ssh.py 135-136)
Caught(result, msg) == [result EXCEPT !.error = msg]

AttributeErrorMsg == "object has no attribute 'get'"
TypeErrorMsg == "unsupported operand type(s)"

\* the for loop over the grep output (ssh.py 103-108)
RECURSIVE ReadEnvLines(_, _)
ReadEnvLines(result, lines) ==
    IF lines = <<>> THEN result
    ELSE LET line == Head(lines)
             next == IF line.key = "OS_USERNAME"
                     THEN [result EXCEPT !.account = EnvValue(line)]
                     ELSE IF line.key = "OS_PROJECT_NAME"
                     THEN [result EXCEPT !.project = EnvValue(line)]
                     ELSE result
         IN ReadEnvLines(next, Tail(lines))

\* if code == 0 and out.strip(): ...   (ssh.py 103)
ReadEnv(result, reply) ==
    IF reply.code = 0 /\ reply.out # <<>>
    THEN ReadEnvLines(result, reply.out)
    ELSE result

\* a faulty loop that stops at the first non-empty bucket
RECURSIVE ReadAllocated_first(_, _, _)
ReadAllocated_first(result, buckets, i) ==
    IF i > Len(buckets) THEN result
    ELSE LET subnet_ips == buckets[i] IN
         IF ~Truthy(subnet_ips) THEN ReadAllocated_first(result, buckets, i + 1)
         ELSE IF subnet_ips.t # "list" THEN Caught(result, TypeErrorMsg)
         ELSE LET last == subnet_ips.items[Len(subnet_ips.items)] IN
              IF ~IsObj(last) THEN Caught(result, AttributeErrorMsg)
              ELSE [result EXCEPT !.last_ip = PyVal(JGet(last, "floating_ip", JNull))]

\* for subnet_ips in allocated.values(): ...   (ssh.py 128-131), from bucket i on
RECURSIVE ReadAllocated(_, _, _)
ReadAllocated(result, buckets, i) ==
    IF i > Len(buckets) THEN result
    ELSE LET subnet_ips == buckets[i] IN
         IF ~Truthy(subnet_ips) THEN ReadAllocated(result, buckets, i + 1)
         ELSE IF subnet_ips.t # "list" THEN Caught(result, TypeErrorMsg)
         ELSE LET last == subnet_ips.items[Len(subnet_ips.items)] IN
              IF ~IsObj(last) THEN Caught(result, AttributeErrorMsg)
              ELSE ReadAllocated(
                       [result EXCEPT !.last_ip = PyVal(JGet(last, "floating_ip", JNull))],
                       buckets, i + 1)

\* sum(s.get("success", 0) for s in stats.values()) raises on a member that is
\* no dict or whose success is no number
StatsSummable(stats) ==
    \A i \in 1..Len(stats.kv) :
        LET s == stats.kv[i][2] IN
        IsObj(s) /\ JGet(s, "success", JNum(0)).t = "num"

StatsSum(stats) ==
    SumSeq([i \in 1..Len(stats.kv) |-> JGet(stats.kv[i][2], "success", JNum(0)).n])

\* the body of `if code == 0 and out.strip():` (ssh.py 114-133)
ReadState(result, reply) ==
    IF ~(reply.code = 0 /\ ~reply.out.blank) THEN result
    ELSE IF ~reply.out.valid THEN result      \* json.JSONDecodeError: logged only
    ELSE LET state == reply.out.doc
             r1 == [result EXCEPT !.state = "parsed"]
         IN
         IF ~IsObj(state) THEN Caught(r1, AttributeErrorMsg)
         ELSE LET meta == JGet(state, "meta", EmptyObj) IN
         IF ~IsObj(meta) THEN Caught(r1, AttributeErrorMsg)
         ELSE LET r2 == [r1 EXCEPT !.cycles = PyVal(JGet(meta, "cycle_no", JNum(0)))]
                  stats == JGet(meta, "stats", EmptyObj)
              IN
         IF ~IsObj(stats) THEN Caught(r2, AttributeErrorMsg)
         ELSE IF ~StatsSummable(stats) THEN Caught(r2, TypeErrorMsg)
         ELSE LET r3 == [r2 EXCEPT !.success = StatsSum(stats)]
                  allocated == JGet(state, "allocated", EmptyObj)
              IN
         IF ~IsObj(allocated) THEN Caught(r3, AttributeErrorMsg)
         ELSE ReadAllocated(r3, JValues(allocated), 1)

\* a faulty reader that takes any output of is-active for a running agent
get_script_status_any_output(reply) ==
    IF reply.connect.raised THEN Caught(DefaultStatus, reply.connect.msg)
    ELSE IF reply.active.raised THEN Caught(DefaultStatus, reply.active.msg)
    ELSE LET r1 == [DefaultStatus EXCEPT !.running = (Strip(reply.active.out) # "")] IN
    IF reply.env.raised THEN Caught(r1, reply.env.msg)
    ELSE LET r2 == ReadEnv(r1, reply.env) IN
    IF reply.state.raised THEN Caught(r2, reply.state.msg)
    ELSE ReadState(r2, reply.state)

get_script_status(reply) ==
    IF reply.connect.raised THEN Caught(DefaultStatus, reply.connect.msg)
    ELSE IF reply.active.raised THEN Caught(DefaultStatus, reply.active.msg)
    ELSE LET r1 == [DefaultStatus EXCEPT !.running = (Strip(reply.active.out) = "active")] IN
    IF reply.env.raised THEN Caught(r1, reply.env.msg)
    ELSE LET r2 == ReadEnv(r1, reply.env) IN
    IF reply.state.raised THEN Caught(r2, reply.state.msg)
    ELSE ReadState(r2, reply.state)

(***************************************************************************)
(* The bounded input space of get_script_status: one table per remote      *)
(* call; an input is a tuple of indexes into the tables.                   *)
(***************************************************************************)
ConnectReplies ==
    << ConnectOk,
       Raised("timed out"),
       Raised("Authentication failed.") >>

ActiveReplies ==
    << Exec(0, Text("active", TRUE), ""),
       Exec(3, Text("inactive", TRUE), ""),
       Exec(3, Text("failed", TRUE), ""),
       Exec(4, Text("", FALSE), "Unit could not be found."),
       Raised("Timeout opening channel.") >>

EnvReplies ==
    << Exec(0, << EnvLine("OS_USERNAME", "\"", "user1"),
                  EnvLine("OS_PROJECT_NAME", "\"", "proj1") >>, ""),
       Exec(0, << EnvLine("OS_PROJECT_NAME", "", "proj2") >>, ""),
       Exec(1, <<>>, ""),
       Exec(2, <<>>, ""),
       Raised("Timeout opening channel.") >>

Entry(ip) == JObj(<< <<"floating_ip", JStr(ip)>>, <<"fip_id", JStr("id")>> >>)
Stat(n) == JObj(<< <<"success", JNum(n)>>, <<"fail", JNum(1)>> >>)
Meta(cycle, stats) == JObj(<< <<"cycle_no", JNum(cycle)>>, <<"stats", stats>> >>)

StateReplies ==
    << \* 1: the file is absent (cat fails, stderr discarded by 2>/dev/null)
       Exec(1, NoText, ""),
       \* 2: the file is empty
       Exec(0, NoText, ""),
       \* 3: a half-written file
       Exec(0, BadJson, ""),
       \* 4, 5: JSON that is no object
       Exec(0, Json(JList(<<JNum(1)>>)), ""),
       Exec(0, Json(JNull), ""),
       \* 6: meta is no object
       Exec(0, Json(JObj(<< <<"meta", JList(<<>>)>> >>)), ""),
       \* 7: meta.cycle_no present, meta.stats no object
       Exec(0, Json(JObj(<< <<"meta", Meta(5, JList(<<>>))>> >>)), ""),
       \* 8: meta valid, allocated no object
       Exec(0, Json(JObj(<< <<"meta", Meta(7, JObj(<< <<"net1", Stat(3)>> >>))>>,
                            <<"allocated", JList(<<>>)>> >>)), ""),
       \* 9: meta valid, a bucket whose last entry is no object
       Exec(0, Json(JObj(<< <<"meta", Meta(2, JObj(<< <<"net1", Stat(1)>> >>))>>,
                            <<"allocated", JObj(<< <<"net1", JList(<<Entry("10.0.0.1")>>)>>,
                                                   <<"net2", JList(<<JStr("x")>>)>> >>)>> >>)), ""),
       \* 10: an empty object
       Exec(0, Json(EmptyObj), ""),
       \* 11: valid, one bucket
       Exec(0, Json(JObj(<< <<"meta", Meta(4, JObj(<< <<"net1", Stat(2)>>, <<"net2", Stat(1)>> >>))>>,
                            <<"allocated", JObj(<< <<"net1", JList(<<Entry("10.0.0.1"),
                                                                     Entry("10.0.0.2")>>)>> >>)>> >>)), ""),
       \* 12: valid, two non-empty buckets and an empty one
       Exec(0, Json(JObj(<< <<"meta", Meta(9, JObj(<< <<"net1", Stat(2)>> >>))>>,
                            <<"allocated", JObj(<< <<"net1", JList(<<Entry("10.0.0.3")>>)>>,
                                                   <<"net2", JList(<<Entry("10.0.0.4")>>)>>,
                                                   <<"net3", JList(<<>>)>> >>)>> >>)), ""),
       \* 13: valid, every bucket empty
       Exec(0, Json(JObj(<< <<"meta", Meta(1, EmptyObj)>>,
                            <<"allocated", JObj(<< <<"net1", JList(<<>>)>> >>)>> >>)), ""),
       \* 14: the command raises (execution timeout)
       Raised("timed out") >>

StatusArgs ==
    [connect : 1..Len(ConnectReplies), active : 1..Len(ActiveReplies),
     env : 1..Len(EnvReplies), state : 1..Len(StateReplies)]

StatusReply(arg) ==
    [connect |-> ConnectReplies[arg.connect], active |-> ActiveReplies[arg.active],
     env |-> EnvReplies[arg.env], state |-> StateReplies[arg.state]]

(***************************************************************************)
(* The cloud API client (openstack.py).  A request either raises           *)
(* httpx.HTTPStatusError (raise_for_status), raises another exception      *)
(* (transport), or returns the decoded body.                               *)
(***************************************************************************)
HttpError(status) == [raised |-> TRUE, http |-> TRUE, status |-> status, msg |-> "HTTP status error"]
HttpFailed(msg) == [raised |-> TRUE, http |-> FALSE, status |-> 0, msg |-> msg]
HttpOk(body) == [raised |-> FALSE, body |-> body]

Endpoint(interface, region, url) == [interface |-> interface, region |-> region, url |-> url]
Service(type, endpoints) == [type |-> type, endpoints |-> endpoints]

\* a faulty filter that takes the public endpoints of every region
RECURSIVE LastUrl_any_region(_, _)
LastUrl_any_region(eps, url) ==
    IF eps = <<>> THEN url
    ELSE LET ep == Head(eps) IN
         LastUrl_any_region(Tail(eps), IF ep.interface = "public" THEN ep.url ELSE url)

\* endpoints[stype] after the two loops of openstack_auth (openstack.py 51-56):
\* the last public RegionOne endpoint of the last service of that type
RECURSIVE LastUrl(_, _)
LastUrl(eps, url) ==
    IF eps = <<>> THEN url
    ELSE LET ep == Head(eps) IN
         LastUrl(Tail(eps),
                 IF ep.interface = "public" /\ ep.region = "RegionOne" THEN ep.url ELSE url)

RECURSIVE EndpointOf(_, _, _)
EndpointOf(catalog, stype, url) ==
    IF catalog = <<>> THEN url
    ELSE LET service == Head(catalog) IN
         EndpointOf(Tail(catalog), stype,
                    IF service.type = stype THEN LastUrl(service.endpoints, url) ELSE url)

\* openstack_auth's return value for a 2xx answer (openstack.py 47-61)
openstack_auth(body) ==
    [token |-> body.token,
     endpoints |-> [network |-> EndpointOf(body.catalog, "network", None),
                    compute |-> EndpointOf(body.catalog, "compute", None)],
     project_name |-> body.project_name]

Fip(address, port_id, fixed_ip) ==
    [floating_ip_address |-> address, id |-> address, status |-> "ACTIVE",
     fixed_ip_address |-> fixed_ip, port_id |-> port_id]
Instance(name, addresses) == [name |-> name, addresses |-> addresses]

\* the search of openstack.py 143-150: `break` leaves the innermost loop only,
\* so the last instance holding the address gives the name
RECURSIVE ServerNameOf(_, _, _)
ServerNameOf(servers, fixed_ip, name) ==
    IF servers = <<>> THEN name
    ELSE LET srv == Head(servers) IN
         ServerNameOf(Tail(servers), fixed_ip,
                      IF \E i \in 1..Len(srv.addresses) : srv.addresses[i] = fixed_ip
                      THEN srv.name ELSE name)

\* ip_info of one floating IP (openstack.py 132-150)
IpInfo(fip, servers) ==
    [ip |-> fip.floating_ip_address,
     id |-> fip.id,
     status |-> fip.status,
     fixed_ip |-> fip.fixed_ip_address,
     port_id |-> fip.port_id,
     attached |-> NonEmpty(fip.port_id),
     server_name |-> IF NonEmpty(fip.fixed_ip_address) /\ servers # <<>>
                     THEN ServerNameOf(servers, fip.fixed_ip_address, None)
                     ELSE None]

\* except httpx.HTTPStatusError / except Exception (openstack.py 154-159)
\* f"HTTP {e.response.status_code}"
HttpText(status) ==
    CASE status = 401 -> "HTTP 401"
      [] status = 500 -> "HTTP 500"
      [] status = 503 -> "HTTP 503"
      [] OTHER -> "HTTP"

InventoryCaught(result, e) ==
    [result EXCEPT !.error = IF e.http THEN HttpText(e.status) ELSE e.msg]

\* str(KeyError(key)) for the first of the keys that project lacks
KeyErrorText(project, keys) ==
    LET first == CHOOSE i \in 1..Len(keys) :
                     /\ keys[i] \notin DOMAIN project
                     /\ \A j \in 1..(i - 1) : keys[j] \in DOMAIN project
    IN CASE keys[first] = "name" -> "'name'"
         [] keys[first] = "username" -> "'username'"
         [] keys[first] = "auth_url" -> "'auth_url'"
         [] keys[first] = "password" -> "'password'"
         [] OTHER -> "'project_id'"

\* the keys openstack_auth's arguments read inside the try block (openstack.py 103-108)
AuthKeys == <<"auth_url", "username", "password", "project_id">>

\* a faulty reader without the inner try/except of openstack.py 125-128: a
\* failing instance listing ends the call
get_project_floating_ips_strict(project, cloud) ==
    LET result == [name |-> project.name, username |-> project.username,
                   os_project_name |-> None, ips |-> <<>>, error |-> None]
    IN
    IF \E i \in 1..Len(AuthKeys) : AuthKeys[i] \notin DOMAIN project
    THEN [result EXCEPT !.error = KeyErrorText(project, AuthKeys)]
    ELSE IF cloud.auth.raised THEN InventoryCaught(result, cloud.auth)
    ELSE LET auth == openstack_auth(cloud.auth.body)
             r1 == [result EXCEPT !.os_project_name = auth.project_name]
         IN
    IF ~NonEmpty(auth.endpoints.network) THEN [r1 EXCEPT !.error = "No network endpoint"]
    ELSE IF cloud.fips.raised THEN InventoryCaught(r1, cloud.fips)
    ELSE IF NonEmpty(auth.endpoints.compute) /\ cloud.servers.raised
    THEN InventoryCaught(r1, cloud.servers)
    ELSE LET fips == cloud.fips.body
             servers == IF NonEmpty(auth.endpoints.compute) THEN cloud.servers.body ELSE <<>>
         IN [r1 EXCEPT !.ips = [i \in 1..Len(fips) |-> IpInfo(fips[i], servers)]]

\* get_project_floating_ips from its try block on (openstack.py 102-161), for a
\* project that has a name and a username; cloud holds the answers to the token
\* request, the floating IP listing and the instance listing
get_project_floating_ips(project, cloud) ==
    LET result == [name |-> project.name, username |-> project.username,
                   os_project_name |-> None, ips |-> <<>>, error |-> None]
    IN
    IF \E i \in 1..Len(AuthKeys) : AuthKeys[i] \notin DOMAIN project
    THEN [result EXCEPT !.error = KeyErrorText(project, AuthKeys)]
    ELSE IF cloud.auth.raised THEN InventoryCaught(result, cloud.auth)
    ELSE LET auth == openstack_auth(cloud.auth.body)
             r1 == [result EXCEPT !.os_project_name = auth.project_name]
         IN
    IF ~NonEmpty(auth.endpoints.network) THEN [r1 EXCEPT !.error = "No network endpoint"]
    ELSE IF cloud.fips.raised THEN InventoryCaught(r1, cloud.fips)
    ELSE LET fips == cloud.fips.body
             servers == IF NonEmpty(auth.endpoints.compute) /\ ~cloud.servers.raised
                        THEN cloud.servers.body
                        ELSE <<>>
         IN [r1 EXCEPT !.ips = [i \in 1..Len(fips) |-> IpInfo(fips[i], servers)]]

(***************************************************************************)
(* get_floating_ips_via_cli (ssh.py 183-257): the inventory of one agent's *)
(* project, listed by the openstack CLI on the agent's host.               *)
(***************************************************************************)
DefaultCli == [ips |-> <<>>, error |-> None, account |-> None, project |-> None]

\* x or y
PyOr(x, y) == IF Truthy(x) THEN x ELSE y

\* the dict appended for one entry of the listing (ssh.py 236-243)
CliIp(ip) ==
    [ip |-> PyVal(JGet(ip, "Floating IP Address", JNull)),
     id |-> PyVal(JGet(ip, "ID", JNull)),
     status |-> PyVal(JGet(ip, "Status", JNull)),
     fixed_ip |-> PyVal(JGet(ip, "Fixed IP Address", JNull)),
     port_id |-> PyVal(JGet(ip, "Port", JNull)),
     attached |-> Truthy(PyOr(JGet(ip, "Port", JNull), JGet(ip, "Fixed IP Address", JNull)))]

\* for ip in ips_data: result["ips"].append(...)   (ssh.py 235-243), from item i on
RECURSIVE CliAppend(_, _, _)
CliAppend(result, items, i) ==
    IF i > Len(items) THEN result
    ELSE IF ~IsObj(items[i]) THEN Caught(result, AttributeErrorMsg)
    ELSE CliAppend([result EXCEPT !.ips = Append(@, CliIp(items[i]))], items, i + 1)

\* if code == 0 and out.strip(): ... elif err: ...   (ssh.py 232-248)
CliListing(result, reply) ==
    IF reply.code = 0 /\ ~reply.out.blank
    THEN IF ~reply.out.valid THEN [result EXCEPT !.error = "JSON parse error"]
         ELSE LET ips_data == reply.out.doc IN
              CASE ips_data.t = "list" -> CliAppend(result, ips_data.items, 1)
                \* a dict iterates over its keys: str has no .get
                [] ips_data.t = "obj" -> IF ips_data.kv = <<>> THEN result
                                         ELSE Caught(result, AttributeErrorMsg)
                [] ips_data.t = "str" -> IF ips_data.s = "" THEN result
                                         ELSE Caught(result, AttributeErrorMsg)
                [] OTHER -> Caught(result, "object is not iterable")
    ELSE IF reply.err # "" THEN [result EXCEPT !.error = reply.err]
    ELSE result

get_floating_ips_via_cli(reply) ==
    IF reply.connect.raised THEN Caught(DefaultCli, reply.connect.msg)
    ELSE IF reply.listing.raised THEN Caught(DefaultCli, reply.listing.msg)
    ELSE IF reply.env.raised THEN Caught(DefaultCli, reply.env.msg)
    ELSE CliListing(ReadEnv(DefaultCli, reply.env), reply.listing)

(***************************************************************************)
(* The bounded input spaces of the two inventory readers.                  *)
(***************************************************************************)
TokenBody(catalog) == [token |-> "tok", catalog |-> catalog, project_name |-> "mcs1"]

AuthReplies ==
    << HttpOk(TokenBody(<< Service("network", << Endpoint("public", "RegionOne", "net-url") >>),
                           Service("compute", << Endpoint("public", "RegionOne", "nova-url") >>) >>)),
       HttpOk(TokenBody(<< Service("network", << Endpoint("internal", "RegionOne", "net-int"),
                                                 Endpoint("public", "RegionOne", "net-url"),
                                                 Endpoint("public", "RegionTwo", "net-two") >>) >>)),
       HttpOk(TokenBody(<< Service("network", << Endpoint("public", "RegionTwo", "net-two") >>),
                           Service("compute", << Endpoint("public", "RegionOne", "nova-url") >>) >>)),
       HttpError(401),
       HttpFailed("connect timeout") >>

FipsReplies ==
    << HttpOk(<<>>),
       HttpOk(<< Fip("1.1.1.1", "port-1", "10.0.0.5"), Fip("1.1.1.2", None, None) >>),
       HttpOk(<< Fip("1.1.1.3", "", None), Fip("1.1.1.4", "port-4", "10.0.0.9") >>),
       HttpOk(<< Fip("1.1.1.5", None, "10.0.0.5") >>),
       HttpError(500) >>

ServersReplies ==
    << HttpOk(<< Instance("vm1", <<"10.0.0.5">>), Instance("vm2", <<"10.0.0.7">>) >>),
       HttpOk(<<>>),
       HttpError(503),
       HttpFailed("read timeout") >>

SampleProject ==
    [name |-> "p", username |-> "u", password |-> "pw", auth_url |-> "https://id", project_id |-> 1]

\* project records: the one api_add_project stores, and incomplete ones
ProjectRecords ==
    << SampleProject,
       [name |-> "p", username |-> "u", password |-> "pw", project_id |-> 1],
       [name |-> "p", username |-> "u", auth_url |-> "https://id"],
       [name |-> "p", password |-> "pw", auth_url |-> "https://id", project_id |-> 1],
       [username |-> "u", password |-> "pw", auth_url |-> "https://id", project_id |-> 1] >>

InventoryArgs ==
    [auth : 1..Len(AuthReplies), fips : 1..Len(FipsReplies), servers : 1..Len(ServersReplies),
     project : 1..Len(ProjectRecords)]

InventoryReply(arg) ==
    [auth |-> AuthReplies[arg.auth], fips |-> FipsReplies[arg.fips],
     servers |-> ServersReplies[arg.servers]]

CliEntry(address, port, fixed) ==
    JObj(<< <<"ID", JStr(address)>>, <<"Floating IP Address", JStr(address)>>,
            <<"Fixed IP Address", fixed>>, <<"Port", port>>, <<"Status", JStr("ACTIVE")>> >>)

ListingReplies ==
    << Exec(0, Json(JList(<<>>)), ""),
       Exec(0, Json(JList(<< CliEntry("1.1.1.1", JStr("port-1"), JStr("10.0.0.5")),
                             CliEntry("1.1.1.2", JNull, JNull) >>)), ""),
       Exec(0, Json(JList(<< CliEntry("1.1.1.5", JNull, JStr("10.0.0.5")) >>)), ""),
       Exec(0, Json(JList(<< CliEntry("1.1.1.1", JStr("port-1"), JNull), JStr("x") >>)), ""),
       Exec(0, Json(JObj(<< <<"error", JStr("x")>> >>)), ""),
       Exec(0, BadJson, ""),
       Exec(0, NoText, ""),
       \* the command ends in 2>&1: a failing CLI writes its message to stdout
       Exec(1, BadJson, ""),
       Exec(127, NoText, "bash: cd: No such file or directory"),
       Raised("timed out") >>

CliArgs ==
    [connect : 1..Len(ConnectReplies), listing : 1..Len(ListingReplies), env : 1..Len(EnvReplies)]

CliReply(arg) ==
    [connect |-> ConnectReplies[arg.connect], listing |-> ListingReplies[arg.listing],
     env |-> EnvReplies[arg.env]]

(***************************************************************************)
(* control_script (ssh.py 145-180).  The result is the returned pair       *)
(* (success, message) together with the trace of what the call did to the  *)
(* remote host: "connect:ok" or "connect:failed" for ssh_connect,          *)
(* "exec:..." for each ssh_exec, "close" for client.close().               *)
(***************************************************************************)
Outcome(success, message, ops) == [success |-> success, message |-> message, ops |-> ops]

\* f"Invalid action: {action}"
InvalidActionText(action) ==
    CASE action = "status" -> "Invalid action: status"
      [] action = "" -> "Invalid action: "
      [] OTHER -> "Invalid action"

\* f"Service {action} OK"
ServiceOkText(action) ==
    CASE action = "start" -> "Service start OK"
      [] action = "stop" -> "Service stop OK"
      [] OTHER -> "Service restart OK"

\* f"Exit code {code}"
ExitCodeText(code) ==
    CASE code = 1 -> "Exit code 1"
      [] code = 5 -> "Exit code 5"
      [] OTHER -> "Exit code"

\* a faulty message that prefers the standard output
ErrorMsg_stdout_first(code, out, err) ==
    IF Strip(out) # "" THEN Strip(out)
    ELSE IF Strip(err) # "" THEN Strip(err)
    ELSE ExitCodeText(code)

\* err.strip() or out.strip() or f"Exit code {code}"   (ssh.py 170)
ErrorMsg(code, out, err) ==
    IF Strip(err) # "" THEN Strip(err)
    ELSE IF Strip(out) # "" THEN Strip(out)
    ELSE ExitCodeText(code)

\* a faulty control_script that connects before it looks at the action
control_script_unchecked(action, reply) ==
    IF reply.connect.raised
    THEN Outcome(FALSE, reply.connect.msg, <<"connect:failed">>)
    ELSE IF action \notin {"start", "stop", "restart"}
    THEN Outcome(FALSE, InvalidActionText(action), <<"connect:ok", "close">>)
    ELSE IF reply.cmd.raised
    THEN Outcome(FALSE, reply.cmd.msg, <<"connect:ok", "exec:systemctl", "close">>)
    ELSE IF reply.cmd.code = 0
    THEN Outcome(TRUE, ServiceOkText(action), <<"connect:ok", "exec:systemctl", "close">>)
    ELSE Outcome(FALSE, ExitCodeText(reply.cmd.code),
                 <<"connect:ok", "exec:systemctl", "close">>)

control_script(action, reply) ==
    IF action \notin {"start", "stop", "restart"}
    THEN Outcome(FALSE, InvalidActionText(action), <<>>)
    ELSE IF reply.connect.raised
    THEN Outcome(FALSE, reply.connect.msg, <<"connect:failed">>)
    ELSE IF reply.cmd.raised
    THEN Outcome(FALSE, reply.cmd.msg, <<"connect:ok", "exec:systemctl", "close">>)
    ELSE IF reply.cmd.code = 0
    THEN Outcome(TRUE, ServiceOkText(action), <<"connect:ok", "exec:systemctl", "close">>)
    ELSE Outcome(FALSE, ErrorMsg(reply.cmd.code, reply.cmd.out, reply.cmd.err),
                 <<"connect:ok", "exec:systemctl", "close">>)

\* the bounded input space of control_script
Actions == {"start", "stop", "restart", "status", ""}

ControlReplies ==
    << Exec(0, Text("", FALSE), Text("", FALSE)),
       \* exit code 0 with a warning on stderr
       Exec(0, Text("", FALSE), Text("Warning: unit file changed on disk", TRUE)),
       \* both streams hold text
       Exec(1, Text("Starting agent", TRUE), Text("Failed to start unit", TRUE)),
       \* stderr holds white space only
       Exec(5, Text("Unit not loaded", TRUE), Text("", TRUE)),
       Exec(1, Text("", FALSE), Text("", FALSE)),
       Exec(5, Text("", TRUE), Text("", TRUE)),
       Raised("timed out") >>

ControlArgs ==
    [action : Actions, connect : 1..Len(ConnectReplies), cmd : 1..Len(ControlReplies)]

ControlReply(arg) ==
    [connect |-> ConnectReplies[arg.connect], cmd |-> ControlReplies[arg.cmd]]

(***************************************************************************)
(* change_script_project (ssh.py 260-348).  The credential file is the     *)
(* list current_env.split("\n") of its lines.  A line is blank (white      *)
(* space only), a comment (its stripped text starts with "#"), plain (no   *)
(* "=" in it) or an assignment; the key of an assignment is the stripped   *)
(* text before the first "=", its value the text after it without the      *)
(* enclosing quotes, leading white space is the indent flag.               *)
(***************************************************************************)
FileLine(kind, indent, key, quote, value) ==
    [kind |-> kind, indent |-> indent, key |-> key, quote |-> quote, value |-> value]
BlankLine(indent) == FileLine("blank", indent, "", "", "")
CommentLine(text) == FileLine("comment", FALSE, "", "", text)
PlainLine(text) == FileLine("plain", FALSE, "", "", text)
AssignLine(indent, key, quote, value) == FileLine("assign", indent, key, quote, value)

\* project["project_id"] as it is written into the file
IdText(project_id) ==
    CASE project_id = 1 -> "id-1"
      [] project_id = 2 -> "id-2"
      [] project_id = 3 -> "id-3"
      [] OTHER -> "id"

\* updates (ssh.py 296-305), a dict in insertion order
Updates(project) ==
    JObj(<< <<"OS_USERNAME", project.username>>,
            <<"OS_PASSWORD", project.password>>,
            <<"OS_PROJECT_ID", IdText(project.project_id)>>,
            <<"OS_PROJECT_NAME", IF NonEmpty(project.os_project_name)
                                 THEN project.os_project_name
                                 ELSE project.name>> >>
         \o (IF NonEmpty(project.auth_url)
             THEN << <<"OS_AUTH_URL", project.auth_url>> >>
             ELSE <<>>))

\* key in updates, for the key the loop computes of a line (ssh.py 314-315)
Updated(line, updates) == line.kind = "assign" /\ JHas(updates, line.key)

\* a faulty pass that rewrites every assignment in the normal form
PatchLine_normalising(line, updates) ==
    IF line.kind = "assign"
    THEN AssignLine(FALSE, line.key, "\"",
                    IF JHas(updates, line.key) THEN JGet(updates, line.key, "") ELSE line.value)
    ELSE line

\* one pass of the loop of ssh.py 307-321
PatchLine(line, updates) ==
    IF Updated(line, updates)
    THEN AssignLine(FALSE, line.key, "\"", JGet(updates, line.key, ""))
    ELSE line

\* new_lines (ssh.py 307-326)
Patch(lines, updates) ==
    LET updated_keys == {lines[i].key : i \in {j \in 1..Len(lines) : Updated(lines[j], updates)}}
        Missing(kv) == kv[1] \notin updated_keys
        missing == SelectSeq(updates.kv, Missing)
    IN [i \in 1..Len(lines) |-> PatchLine(lines[i], updates)]
       \o [i \in 1..Len(missing) |-> AssignLine(FALSE, missing[i][1], "\"", missing[i][2])]

\* the file after echo '<new_env>' > env_file: echo ends its output with a
\* newline, so the split of the new content ends with an empty string
Written(new_lines) == new_lines \o <<BlankLine(FALSE)>>

\* f"<prefix>{text}"
Formatted(prefix, text) == [prefix |-> prefix, text |-> text]

Changed(success, message, ops, file) ==
    [success |-> success, message |-> message, ops |-> ops, file |-> file]

\* a faulty change that runs the three commands whatever their exit codes and
\* reports the restart only
change_script_project_unchecked(project, file, reply) ==
    IF reply.connect.raised
    THEN Changed(FALSE, Formatted("", reply.connect.msg), <<"connect:failed">>, file)
    ELSE IF reply.read.raised \/ reply.write.raised \/ reply.restart.raised
    THEN Changed(FALSE, Formatted("", "timed out"),
                 <<"connect:ok", "exec:cat-env", "close">>, file)
    ELSE Changed(reply.restart.code = 0, Formatted("Failed to restart service: ", reply.restart.err),
                 <<"connect:ok", "exec:cat-env", "exec:write-env", "exec:restart", "close">>,
                 file)

\* reply.read, reply.write and reply.restart answer the three commands; the
\* write changes the file when reply.wrote says so
change_script_project(project, file, reply) ==
    LET new_lines == Patch(file, Updates(project))
        after == IF reply.wrote THEN Written(new_lines) ELSE file
    IN
    IF reply.connect.raised
    THEN Changed(FALSE, Formatted("", reply.connect.msg), <<"connect:failed">>, file)
    ELSE IF reply.read.raised
    THEN Changed(FALSE, Formatted("", reply.read.msg),
                 <<"connect:ok", "exec:cat-env", "close">>, file)
    ELSE IF reply.read.code # 0
    THEN Changed(FALSE, Formatted("Failed to read .env: ", reply.read.err),
                 <<"connect:ok", "exec:cat-env", "close">>, file)
    ELSE IF reply.write.raised
    THEN Changed(FALSE, Formatted("", reply.write.msg),
                 <<"connect:ok", "exec:cat-env", "exec:write-env", "close">>, after)
    ELSE IF reply.write.code # 0
    THEN Changed(FALSE, Formatted("Failed to write .env: ", reply.write.err),
                 <<"connect:ok", "exec:cat-env", "exec:write-env", "close">>, after)
    ELSE IF reply.restart.raised
    THEN Changed(FALSE, Formatted("", reply.restart.msg),
                 <<"connect:ok", "exec:cat-env", "exec:write-env", "exec:restart", "close">>,
                 after)
    ELSE IF reply.restart.code # 0
    THEN Changed(FALSE, Formatted("Failed to restart service: ", reply.restart.err),
                 <<"connect:ok", "exec:cat-env", "exec:write-env", "exec:restart", "close">>,
                 after)
    ELSE Changed(TRUE, Formatted("project changed to ", project.name),
                 <<"connect:ok", "exec:cat-env", "exec:write-env", "exec:restart", "close">>,
                 after)

\* grep -E '^OS_USERNAME=|^OS_PROJECT_NAME=' env_file (ssh.py 99-102): the lines
\* that start with one of the two keys followed by "="
GrepLabels(file) ==
    LET Label(line) == /\ line.kind = "assign"
                       /\ ~line.indent
                       /\ line.key \in {"OS_USERNAME", "OS_PROJECT_NAME"}
        found == SelectSeq(file, Label)
    IN Exec(IF found = <<>> THEN 1 ELSE 0,
            [i \in 1..Len(found) |-> EnvLine(found[i].key, found[i].quote, found[i].value)],
            "")

\* the bounded input space of change_script_project
RebindProject(name, username, auth_url, project_id, os_project_name) ==
    [name |-> name, username |-> username, password |-> "pw2", auth_url |-> auth_url,
     project_id |-> project_id, os_project_name |-> os_project_name]

RebindProjects ==
    << RebindProject("p", "user2", "https://id2", 2, None),
       \* the name Keystone reported is in the projects cache
       RebindProject("p", "user2", "https://id2", 2, "mcs2"),
       \* no auth_url
       RebindProject("q", "user3", "", 3, None),
       \* a Keystone name that ends with a quote character
       RebindProject("p", "user2", "https://id2", 2, "dev'") >>

EnvFiles ==
    << \* 1: every key present, the file ends with a newline
       << CommentLine("# VK Cloud"),
          AssignLine(FALSE, "OS_AUTH_URL", "", "https://id"),
          AssignLine(FALSE, "OS_USERNAME", "\"", "user1"),
          AssignLine(FALSE, "OS_PASSWORD", "\"", "pw1"),
          AssignLine(FALSE, "OS_PROJECT_ID", "", "id-1"),
          AssignLine(FALSE, "OS_PROJECT_NAME", "'", "proj1"),
          AssignLine(FALSE, "INTERVAL", "", "30"),
          BlankLine(FALSE) >>,
       \* 2: some keys absent, no newline at the end
       << CommentLine("# VK Cloud"),
          AssignLine(FALSE, "OS_USERNAME", "'", "user1"),
          BlankLine(TRUE),
          AssignLine(FALSE, "INTERVAL", "", "30") >>,
       \* 3: an indented key, a key with another spelling, a key in a comment, a
       \* line without "=", a key given twice
       << AssignLine(TRUE, "OS_PROJECT_NAME", "", "proj1"),
          AssignLine(FALSE, "export OS_PASSWORD", "", "pw1"),
          CommentLine("#OS_USERNAME=old"),
          PlainLine("garbage"),
          AssignLine(FALSE, "OS_USERNAME", "", "user1"),
          AssignLine(FALSE, "OS_USERNAME", "", "user0"),
          BlankLine(FALSE) >>,
       \* 4: an empty file
       << BlankLine(FALSE) >> >>

ReadReplies ==
    << Exec(0, <<>>, ""),
       Exec(1, <<>>, "cat: .env: No such file or directory"),
       Raised("timed out") >>

\* the answer to the write and whether the file was rewritten
WriteAnswer(reply, wrote) == [reply |-> reply, wrote |-> wrote]

WriteReplies ==
    << WriteAnswer(Exec(0, <<>>, ""), TRUE),
       WriteAnswer(Exec(1, <<>>, "bash: .env: Permission denied"), FALSE),
       WriteAnswer(Raised("timed out"), FALSE),
       \* the answer is lost after the command ran
       WriteAnswer(Raised("timed out"), TRUE) >>

RestartReplies ==
    << Exec(0, <<>>, ""),
       Exec(1, <<>>, "Job for vkip-agent.service failed."),
       Raised("timed out") >>

ChangeArgs ==
    [project : 1..Len(RebindProjects), file : 1..Len(EnvFiles),
     connect : 1..Len(ConnectReplies), read : 1..Len(ReadReplies),
     write : 1..Len(WriteReplies), restart : 1..Len(RestartReplies)]

ChangeReply(arg) ==
    [connect |-> ConnectReplies[arg.connect], read |-> ReadReplies[arg.read],
     write |-> WriteReplies[arg.write].reply, wrote |-> WriteReplies[arg.write].wrote,
     restart |-> RestartReplies[arg.restart]]

\* a faulty session without the finally clause: an exception skips the close
get_script_status_ops_leaky(reply) ==
    IF reply.connect.raised THEN <<"connect:failed">>
    ELSE IF reply.active.raised THEN <<"connect:ok", "exec:is-active">>
    ELSE IF reply.env.raised THEN <<"connect:ok", "exec:is-active", "exec:grep">>
    ELSE <<"connect:ok", "exec:is-active", "exec:grep", "exec:cat-state", "close">>

\* the trace of get_script_status (ssh.py 82-140): the session is closed in the
\* finally clause whenever ssh_connect returned a client
get_script_status_ops(reply) ==
    IF reply.connect.raised THEN <<"connect:failed">>
    ELSE IF reply.active.raised THEN <<"connect:ok", "exec:is-active", "close">>
    ELSE IF reply.env.raised THEN <<"connect:ok", "exec:is-active", "exec:grep", "close">>
    ELSE <<"connect:ok", "exec:is-active", "exec:grep", "exec:cat-state", "close">>

(***************************************************************************)
(* The log readers (main.py 1224-1329).  api_get_logs and the fetch_log of *)
(* api_get_all_logs open a session, run journalctl and close the session   *)
(* inside one try/except Exception without a finally clause.  The result   *)
(* carries the trace of the session like that of control_script.  The      *)
(* messages of the model are shorter than the 200 characters str(e)[:200]  *)
(* keeps.                                                                  *)
(***************************************************************************)
\* out.strip() if code == 0 else (err.strip() or out.strip())
LogText(reply) ==
    IF reply.code = 0 THEN Strip(reply.out)
    ELSE IF Strip(reply.err) # "" THEN Strip(reply.err) ELSE Strip(reply.out)

\* fetch_log (main.py 1287-1313)
fetch_log(reply) ==
    IF reply.connect.raised
    THEN [log |-> "", error |-> reply.connect.msg, ops |-> <<"connect:failed">>]
    ELSE IF reply.journal.raised
    THEN [log |-> "", error |-> reply.journal.msg, ops |-> <<"connect:ok", "exec:journalctl">>]
    ELSE [log |-> LogText(reply.journal), error |-> None,
          ops |-> <<"connect:ok", "exec:journalctl", "close">>]

\* api_get_logs from the connect on (main.py 1244-1269): the response, the
\* entry written to logs_cache (<<>> when none is written) and the trace
api_get_logs(reply) ==
    IF reply.connect.raised
    THEN [ok |-> FALSE, error |-> reply.connect.msg, cached |-> <<>>,
          ops |-> <<"connect:failed">>]
    ELSE IF reply.journal.raised
    THEN [ok |-> FALSE, error |-> reply.journal.msg, cached |-> <<>>,
          ops |-> <<"connect:ok", "exec:journalctl">>]
    ELSE [ok |-> TRUE, log |-> LogText(reply.journal), cached |-> <<LogText(reply.journal)>>,
          ops |-> <<"connect:ok", "exec:journalctl", "close">>]

\* what the host may answer to journalctl ... 2>&1
JournalReplies ==
    << Exec(0, Text("Started vkip-agent", TRUE), Text("", FALSE)),
       Exec(0, Text("", FALSE), Text("", FALSE)),
       Exec(1, Text("No journal files were found.", TRUE), Text("", FALSE)),
       Raised("timed out"),
       Raised("SSH session not active") >>

LogArgs == [connect : 1..Len(ConnectReplies), journal : 1..Len(JournalReplies)]

LogReply(arg) == [connect |-> ConnectReplies[arg.connect], journal |-> JournalReplies[arg.journal]]

(***************************************************************************)
(* The persisted document (data.py).  A dict is a function on its keys:    *)
(* the status and cloud caches are keyed by f"{server_id}-{script_id}",    *)
(* modelled as the pair of the two ids; the projects cache by the          *)
(* project's name.  A time stamp is the number of the request that wrote   *)
(* it, NoTime standing for None.                                           *)
(***************************************************************************)
NoTime == 0
EmptyDict == [k \in {} |-> None]

\* the document load_data returns when DATA_FILE is absent or unreadable (data.py 38-49)
EmptyDoc ==
    [servers |-> <<>>, projects |-> <<>>,
     status_cache |-> EmptyDict, cloud_cache |-> EmptyDict, projects_cache |-> EmptyDict,
     last_update |-> NoTime, cloud_last_update |-> NoTime, projects_last_update |-> NoTime]

NoFile == [file |-> "absent", doc |-> EmptyDoc]
Stored(doc) == [file |-> "ok", doc |-> doc]
\* open(DATA_FILE, "w") has emptied the file and json.dump did not finish
Truncated == [file |-> "truncated", doc |-> EmptyDoc]

\* load_data (data.py 15-49): the stored document, or the empty one when the
\* file is absent or json.load raises
load_data(file) == IF file.file = "ok" THEN file.doc ELSE EmptyDoc

\* save_data (data.py 52-61): what DATA_FILE may hold after the call.  The write
\* opens the file itself with mode "w" and dumps into it, and every exception is
\* caught: the call succeeds, or fails before the file is opened (makedirs or
\* open raise), or fails after the open truncated it (the dump or the flush raise).
save_data(file, doc) == {Stored(doc), file, Truncated}

\* d.get(k, {}) and d.get(k) on a dict
DictGet(d, k, default) == IF k \in DOMAIN d THEN d[k] ELSE default
\* a or b on str | None values
StrOr(a, b) == IF NonEmpty(a) THEN a ELSE b

cache_key(server, script) == <<server.id, script.id>>

\* max([x.get("id", 0) for x in items] + [0])
RECURSIVE MaxId(_)
MaxId(items) ==
    IF items = <<>> THEN 0
    ELSE LET m == MaxId(Tail(items)) IN IF Head(items).id > m THEN Head(items).id ELSE m

\* the (server, script) pairs in the order of the two nested loops (main.py 468-471)
ScriptsOf(server) ==
    [j \in 1..Len(server.scripts) |-> [server |-> server, script |-> server.scripts[j]]]

RECURSIVE Targets(_)
Targets(servers) ==
    IF servers = <<>> THEN <<>> ELSE ScriptsOf(Head(servers)) \o Targets(Tail(servers))

\* sum(1 for r in results if r.get("running")), flags[i] being the test on results[i]
Count(flags) == Cardinality({i \in 1..Len(flags) : flags[i]})

(***************************************************************************)
(* The bound of the model and the configured pool sizes.                   *)
(***************************************************************************)
\* the number of requests the panel serves in one behaviour
MaxRequests == 5

\* config.py 29-30: int(os.getenv(...)); the model runs with small configured pools
MAX_SSH_WORKERS == 2
MAX_CLOUD_WORKERS == 1

ServerNames == {"srv"}
ScriptNames == {"agent"}
ProjectNames == {"p", "q"}

\* what the remote side may answer to one target of a fan-out: a selection of
\* the readers' input spaces (unreachable host, live agent, stopped agent
\* without state file, exec timeout in mid-session, malformed state file)
StatusPollArgs ==
    { [connect |-> 2, active |-> 1, env |-> 1, state |-> 1],
      [connect |-> 1, active |-> 1, env |-> 1, state |-> 11],
      [connect |-> 1, active |-> 2, env |-> 3, state |-> 1],
      [connect |-> 1, active |-> 1, env |-> 5, state |-> 1],
      [connect |-> 1, active |-> 1, env |-> 2, state |-> 7] }

CliPollArgs ==
    { [connect |-> 2, listing |-> 1, env |-> 1],
      [connect |-> 1, listing |-> 2, env |-> 1],
      [connect |-> 1, listing |-> 10, env |-> 1] }

InventoryPollArgs ==
    { [auth |-> 4, fips |-> 1, servers |-> 1],
      [auth |-> 1, fips |-> 2, servers |-> 1],
      [auth |-> 1, fips |-> 5, servers |-> 1] }

(***************************************************************************)
(* Request handlers (main.py).  Every handler is a coroutine that never    *)
(* awaits: it runs to completion on the event loop, so handlers do not     *)
(* interleave with each other.  A refresh handler blocks on its thread     *)
(* pool; the pool's workers are the only concurrency, and the steps        *)
(* between the submit and the return of a refresh are theirs.              *)
(***************************************************************************)
Idle == pc = "idle"

\* a handler that is no refresh: it has no pool, and the locals of the refresh
\* that returned before it are gone
Handled(response, used) ==
    /\ resp' = response
    /\ io' = used
    /\ data' = EmptyDoc
    /\ tasks' = <<>>
    /\ started' = 0
    /\ inflight' = {}
    /\ results' = EmptyDict
    /\ replies' = EmptyDict
    /\ requests' = requests + 1
    /\ UNCHANGED <<pc, fnVars>>

\* add_server (main.py 190-221)
add_server ==
    /\ Idle
    /\ requests < MaxRequests
    /\ \E name \in ServerNames :
         LET d == load_data(disk)
             server == [id |-> MaxId(d.servers) + 1, name |-> name, scripts |-> <<>>]
             doc == [d EXCEPT !.servers = Append(@, server)]
         IN /\ disk' \in save_data(disk, doc)
            /\ Handled([op |-> "add_server"], {"load", "save"})

\* add_script (main.py 279-316)
add_script ==
    /\ Idle
    /\ requests < MaxRequests
    /\ \E server_id \in 1..(MaxId(load_data(disk).servers) + 1), name \in ScriptNames :
         LET d == load_data(disk) IN
         /\ IF \E i \in 1..Len(d.servers) : d.servers[i].id = server_id
            THEN LET i == CHOOSE j \in 1..Len(d.servers) : d.servers[j].id = server_id
                     script == [id |-> MaxId(d.servers[i].scripts) + 1, name |-> name]
                     doc == [d EXCEPT !.servers[i].scripts = Append(@, script)]
                 IN /\ disk' \in save_data(disk, doc)
                    /\ Handled([op |-> "add_script"], {"load", "save"})
            ELSE /\ disk' = disk
                 /\ Handled([op |-> "add_script"], {"load"})

\* api_add_project (main.py 860-931), after the openrc text was parsed.  Project
\* ids are opaque: the request names the id of a stored project (a duplicate) or
\* a new one.
api_add_project ==
    /\ Idle
    /\ requests < MaxRequests
    /\ \E name \in ProjectNames, project_id \in 1..(Len(load_data(disk).projects) + 1) :
         LET d == load_data(disk)
             new_project == [name |-> name, username |-> "u", password |-> "pw",
                             auth_url |-> "https://id", project_id |-> project_id]
             doc == [d EXCEPT !.projects = Append(@, new_project)]
         IN IF \E i \in 1..Len(d.projects) : d.projects[i].project_id = project_id
            THEN /\ disk' = disk
                 /\ Handled([op |-> "api_add_project", ok |-> FALSE], {"load"})
            ELSE /\ disk' \in save_data(disk, doc)
                 /\ Handled([op |-> "api_add_project", ok |-> TRUE], {"load", "save"})

(***************************************************************************)
(* add_projects.py: the operator's script that installs the account list.  *)
(* It is a process of its own that reads and rewrites DATA_FILE, so it is  *)
(* the one writer of the document that can run while a refresh handler is  *)
(* blocked on its pool.  PROJECTS stands for the script's fixed list.      *)
(***************************************************************************)
PROJECTS ==
    << [name |-> "p", username |-> "u", password |-> "pw",
        auth_url |-> "https://id", project_id |-> 1] >>

\* main (add_projects.py 27-42): json.load of the file when it exists ({} when
\* it does not; an unreadable file ends the script with a traceback),
\* data["projects"] = PROJECTS, and the in-place write of save_data without its
\* try/except
add_projects_main ==
    /\ requests < MaxRequests
    /\ disk.file # "truncated"
    /\ LET doc == [load_data(disk) EXCEPT !.projects = PROJECTS] IN
       disk' \in save_data(disk, doc)
    /\ IF Idle
       THEN Handled([op |-> "add_projects", added |-> Len(PROJECTS)], {"load", "save"})
       ELSE /\ requests' = requests + 1
            /\ UNCHANGED <<pc, data, tasks, started, inflight, results, replies, resp, io,
                           fnVars>>

(***************************************************************************)
(* The merged view (main.py 97-150 and 239-276).                           *)
(***************************************************************************)
\* a faulty merge that prefers the labels of the cloud record
Combined_cloud_first(d, key) ==
    LET cached == DictGet(d.status_cache, key, EmptyDict)
        cloud == DictGet(d.cloud_cache, key, EmptyDict)
    IN [floating_ips |-> DictGet(cloud, "ips", <<>>),
        account |-> StrOr(DictGet(cloud, "account", None), DictGet(cached, "account", None)),
        project |-> StrOr(DictGet(cloud, "project", None), DictGet(cached, "project", None)),
        cloud_error |-> DictGet(cloud, "error", None)] @@ cached

\* combined = {**cached}; combined["floating_ips"] = ...   (main.py 118-126)
Combined(d, key) ==
    LET cached == DictGet(d.status_cache, key, EmptyDict)
        cloud == DictGet(d.cloud_cache, key, EmptyDict)
    IN [floating_ips |-> DictGet(cloud, "ips", <<>>),
        account |-> StrOr(DictGet(cached, "account", None), DictGet(cloud, "account", None)),
        project |-> StrOr(DictGet(cached, "project", None), DictGet(cloud, "project", None)),
        cloud_error |-> DictGet(cloud, "error", None)] @@ cached

ScriptsInfo(d) ==
    LET targets == Targets(d.servers) IN
    [i \in 1..Len(targets) |->
        [server |-> targets[i].server.name,
         server_id |-> targets[i].server.id,
         script |-> targets[i].script,
         status |-> Combined(d, cache_key(targets[i].server, targets[i].script))]]

\* a faulty count that takes every configured agent as running
IsRunning_configured(d, target) == TRUE

IsRunning(d, target) ==
    DictGet(DictGet(d.status_cache, cache_key(target.server, target.script), EmptyDict),
            "running", FALSE)

\* a faulty dashboard that polls the hosts while it renders
dashboard_live ==
    /\ Idle
    /\ requests < MaxRequests
    /\ Handled([op |-> "dashboard", total_scripts |-> Len(Targets(load_data(disk).servers))],
               {"load", "ssh"})
    /\ disk' = disk

\* dashboard (main.py 97-150)
dashboard ==
    /\ Idle
    /\ requests < MaxRequests
    /\ LET d == load_data(disk)
           targets == Targets(d.servers)
       IN Handled(
                  [op |-> "dashboard",
                   scripts_info |-> ScriptsInfo(d),
                   total_scripts |-> Len(targets),
                   running_scripts |-> Cardinality({i \in 1..Len(targets) : IsRunning(d, targets[i])}),
                   last_update |-> IF d.last_update # NoTime THEN d.last_update
                                   ELSE d.cloud_last_update],
                  {"load"})
    /\ disk' = disk

\* server_scripts (main.py 239-276)
server_scripts ==
    /\ Idle
    /\ requests < MaxRequests
    /\ \E server_id \in 1..(MaxId(load_data(disk).servers) + 1) :
         LET d == load_data(disk) IN
         IF \E i \in 1..Len(d.servers) : d.servers[i].id = server_id
         THEN LET server == d.servers[CHOOSE j \in 1..Len(d.servers) : d.servers[j].id = server_id]
                  combined(script) ==
                      [x \in DOMAIN Combined(d, cache_key(server, script)) \ {"cloud_error"} |->
                          Combined(d, cache_key(server, script))[x]]
              IN Handled(
                         [op |-> "server_scripts", server |-> server,
                          scripts |-> [j \in 1..Len(server.scripts) |->
                                          [script |-> server.scripts[j],
                                           status |-> combined(server.scripts[j])]]],
                         {"load"})
         ELSE Handled([op |-> "server_scripts", redirect |-> "/servers"], {"load"})
    /\ disk' = disk

(***************************************************************************)
(* The fan-out of a refresh: with ThreadPoolExecutor(max_workers=W) as     *)
(* executor: results = list(executor.map(f, tasks)).  map submits every    *)
(* target; at most W worker threads take the targets in submission order;  *)
(* list(...) yields the return values in submission order and re-raises    *)
(* the exception of the first call that raised; leaving the with block     *)
(* joins the workers.  The outcome of one call is Returned or Thrown.      *)
(***************************************************************************)
Returned(value) == [raised |-> FALSE, value |-> value]
Thrown(msg) == [raised |-> TRUE, value |-> msg]

Now == requests + 1

PoolSize == IF pc = "status" THEN MAX_SSH_WORKERS ELSE MAX_CLOUD_WORKERS

\* fetch_status (main.py 473-488)
fetch_status(target, reply) ==
    LET status == get_script_status(reply) IN
    Returned([server_id |-> target.server.id,
              script_id |-> target.script.id,
              server_name |-> target.server.name,
              script_name |-> target.script.name,
              running |-> status.running,
              cycles |-> status.cycles,
              success |-> status.success,
              last_ip |-> status.last_ip,
              error |-> status.error,
              account |-> status.account,
              project |-> status.project])

\* fetch_cloud (main.py 614-620)
fetch_cloud(target, reply) ==
    Returned([key |-> cache_key(target.server, target.script),
              data |-> get_floating_ips_via_cli(reply)])

\* a faulty reader without the try/except of openstack.py 102-159
fetch_project_unguarded(proj, cloud) ==
    IF cloud.auth.raised THEN Thrown(cloud.auth.msg)
    ELSE IF cloud.fips.raised THEN Thrown(cloud.fips.msg)
    ELSE Returned(get_project_floating_ips(proj, cloud))

\* a call of get_project_floating_ips (openstack.py 84-161): the result dict is
\* built from project["name"] and project["username"] before the try block
get_project_floating_ips_call(project, cloud) ==
    IF \E k \in {"name", "username"} : k \notin DOMAIN project
    THEN Thrown(KeyErrorText(project, <<"name", "username">>))
    ELSE Returned(get_project_floating_ips(project, cloud))

\* fetch_project (main.py 821-822)
fetch_project(proj, cloud) == get_project_floating_ips_call(proj, cloud)

Submit(kind, doc, targets) ==
    /\ pc' = kind
    /\ data' = doc
    /\ tasks' = targets
    /\ started' = 0
    /\ inflight' = {}
    /\ results' = EmptyDict
    /\ replies' = EmptyDict
    /\ resp' = [op |-> "none"]
    /\ io' = {}
    /\ UNCHANGED <<disk, requests, fnVars>>

\* api_refresh_status up to the executor.map call (main.py 465-492)
api_refresh_status_submit ==
    /\ Idle
    /\ requests < MaxRequests
    /\ LET d == load_data(disk) IN Submit("status", d, Targets(d.servers))

\* api_cloud_refresh up to the executor.map call (main.py 606-624)
api_cloud_refresh_submit ==
    /\ Idle
    /\ requests < MaxRequests
    /\ LET d == load_data(disk) IN Submit("cloud", d, Targets(d.servers))

\* api_projects_refresh up to the executor.map call (main.py 815-826)
api_projects_refresh_submit ==
    /\ Idle
    /\ requests < MaxRequests
    /\ LET d == load_data(disk) IN
       IF d.projects = <<>>
       THEN /\ resp' = [op |-> "api_projects_refresh", ok |-> FALSE,
                        error |-> "No projects configured"]
            /\ data' = d
            /\ io' = {"load"}
            /\ requests' = requests + 1
            /\ tasks' = <<>>
            /\ started' = 0
            /\ inflight' = {}
            /\ results' = EmptyDict
            /\ replies' = EmptyDict
            /\ UNCHANGED <<disk, pc, fnVars>>
       ELSE Submit("projects", d, d.projects)

\* a faulty pool that starts a thread for every submitted target
worker_start_unbounded ==
    /\ ~Idle
    /\ started < Len(tasks)
    /\ started' = started + 1
    /\ inflight' = inflight \cup {started + 1}
    /\ UNCHANGED <<disk, pc, data, tasks, results, replies, resp, io, requests, fnVars>>

\* a pool worker takes the next submitted target
worker_start ==
    /\ ~Idle
    /\ started < Len(tasks)
    /\ Cardinality(inflight) < PoolSize
    /\ started' = started + 1
    /\ inflight' = inflight \cup {started + 1}
    /\ UNCHANGED <<disk, pc, data, tasks, results, replies, resp, io, requests, fnVars>>

\* a call without timeouts that never returns
Hang(i, arg, outcome) == UNCHANGED vars

Finish(i, arg, outcome) ==
    /\ results' = (i :> outcome) @@ results
    /\ replies' = (i :> arg) @@ replies
    /\ inflight' = inflight \ {i}
    /\ UNCHANGED <<disk, pc, data, tasks, started, resp, io, requests, fnVars>>

\* the call of one target returns on its worker
worker_finish ==
    \E i \in inflight :
        \/ /\ pc = "status"
           /\ \E arg \in StatusPollArgs : Finish(i, arg, fetch_status(tasks[i], StatusReply(arg)))
        \/ /\ pc = "cloud"
           /\ \E arg \in CliPollArgs : Finish(i, arg, fetch_cloud(tasks[i], CliReply(arg)))
        \/ /\ pc = "projects"
           /\ \E arg \in InventoryPollArgs :
                  Finish(i, arg, fetch_project(tasks[i], InventoryReply(arg)))

\* every submitted target has an outcome: list(executor.map(...)) can end
Joined == started = Len(tasks) /\ inflight = {} /\ DOMAIN results = 1..Len(tasks)

\* a faulty fan-in that stops collecting one target early
executor_map_short(outcomes) == [i \in 1..(Len(tasks) - 1) |-> outcomes[i].value]

\* list(executor.map(f, tasks)): the values in submission order
executor_map(outcomes) == [i \in 1..Len(tasks) |-> outcomes[i].value]

SomeRaised == \E i \in DOMAIN results : results[i].raised

\* the exception leaves the handler: nothing is saved, the caller gets a 500
Propagate(op) ==
    /\ pc' = "idle"
    /\ resp' = [op |-> op, ok |-> FALSE, error |-> "Internal Server Error"]
    /\ io' = {"load"} \cup (IF tasks # <<>> THEN {"ssh"} ELSE {})
    /\ requests' = requests + 1
    /\ UNCHANGED <<disk, data, tasks, started, inflight, results, replies, fnVars>>

Return(doc, response, used) ==
    /\ pc' = "idle"
    /\ data' = doc
    /\ disk' \in save_data(disk, doc)
    /\ resp' = response
    /\ io' = used
    /\ requests' = requests + 1
    /\ UNCHANGED <<tasks, started, inflight, results, replies, fnVars>>

\* cache = {}; for r in rs: cache[key of r] = value of r, keys[i] and values[i]
\* being those of rs[i]: a later r replaces an earlier one with the same key
DictOf(keys, values) ==
    [k \in {keys[i] : i \in 1..Len(keys)} |->
        LET last == CHOOSE i \in 1..Len(keys) :
                        /\ keys[i] = k
                        /\ \A j \in 1..Len(keys) : keys[j] = k => j <= i
        IN values[last]]

RECURSIVE SumOver(_, _)
SumOver(keys, f) ==
    IF keys = {} THEN 0
    ELSE LET k == CHOOSE x \in keys : TRUE IN f[k] + SumOver(keys \ {k}, f)

Attached(ips) == Cardinality({i \in 1..Len(ips) : ips[i].attached})

\* a faulty refresh that writes its records into the cache it loaded
api_refresh_status_return_merging ==
    /\ pc = "status"
    /\ Joined
    /\ IF SomeRaised THEN Propagate("api_refresh_status")
       ELSE LET rs == executor_map(results)
                keys == [i \in 1..Len(rs) |-> <<rs[i].server_id, rs[i].script_id>>]
                doc == [data EXCEPT !.status_cache = DictOf(keys, rs) @@ @,
                                    !.last_update = Now]
            IN Return(doc,
                      [op |-> "api_refresh_status", ok |-> TRUE, updated |-> Len(rs),
                       running |-> Count([i \in 1..Len(rs) |-> rs[i].running]), last_update |-> Now],
                      {"load", "save"} \cup (IF tasks # <<>> THEN {"ssh"} ELSE {}))

\* api_refresh_status from the fan-in on (main.py 492-507)
api_refresh_status_return ==
    /\ pc = "status"
    /\ Joined
    /\ IF SomeRaised THEN Propagate("api_refresh_status")
       ELSE LET rs == executor_map(results)
                keys == [i \in 1..Len(rs) |-> <<rs[i].server_id, rs[i].script_id>>]
                doc == [data EXCEPT !.status_cache = DictOf(keys, rs),
                                    !.last_update = Now]
            IN Return(doc,
                      [op |-> "api_refresh_status", ok |-> TRUE, updated |-> Len(rs),
                       running |-> Count([i \in 1..Len(rs) |-> rs[i].running]), last_update |-> Now],
                      {"load", "save"} \cup (IF tasks # <<>> THEN {"ssh"} ELSE {}))

\* api_cloud_refresh from the fan-in on (main.py 624-652)
api_cloud_refresh_return ==
    /\ pc = "cloud"
    /\ Joined
    /\ IF SomeRaised THEN Propagate("api_cloud_refresh")
       ELSE LET rs == executor_map(results)
                cloud_cache == DictOf([i \in 1..Len(rs) |-> rs[i].key],
                                      [i \in 1..Len(rs) |-> rs[i].data])
                doc == [data EXCEPT !.cloud_cache = cloud_cache,
                                    !.cloud_last_update = Now]
                total == SumOver(DOMAIN cloud_cache,
                                 [k \in DOMAIN cloud_cache |-> Len(cloud_cache[k].ips)])
                attached == SumOver(DOMAIN cloud_cache,
                                    [k \in DOMAIN cloud_cache |-> Attached(cloud_cache[k].ips)])
            IN Return(doc,
                      [op |-> "api_cloud_refresh", ok |-> TRUE, total_ips |-> total,
                       attached |-> attached, free |-> total - attached, last_update |-> Now],
                      {"load", "save"} \cup (IF tasks # <<>> THEN {"ssh"} ELSE {}))

\* a faulty inventory refresh that also stamps the status cache's time
api_projects_refresh_return_stamping ==
    /\ pc = "projects"
    /\ Joined
    /\ IF SomeRaised THEN Propagate("api_projects_refresh")
       ELSE LET rs == executor_map(results)
                entries == [i \in 1..Len(rs) |->
                               [ips |-> rs[i].ips, error |-> rs[i].error,
                                os_project_name |-> rs[i].os_project_name]]
                doc == [data EXCEPT !.projects_cache =
                                        DictOf([i \in 1..Len(rs) |-> rs[i].name], entries),
                                    !.projects_last_update = Now,
                                    !.last_update = Now]
                total == SumSeq([i \in 1..Len(rs) |-> Len(rs[i].ips)])
                attached == SumSeq([i \in 1..Len(rs) |-> Attached(rs[i].ips)])
                free == SumSeq([i \in 1..Len(rs) |-> Len(rs[i].ips) - Attached(rs[i].ips)])
            IN Return(doc,
                      [op |-> "api_projects_refresh", ok |-> TRUE, total_ips |-> total,
                       attached |-> attached, free |-> free, last_update |-> Now],
                      {"load", "save", "http"})

\* api_projects_refresh from the fan-in on (main.py 826-857)
api_projects_refresh_return ==
    /\ pc = "projects"
    /\ Joined
    /\ IF SomeRaised THEN Propagate("api_projects_refresh")
       ELSE LET rs == executor_map(results)
                entries == [i \in 1..Len(rs) |->
                               [ips |-> rs[i].ips, error |-> rs[i].error,
                                os_project_name |-> rs[i].os_project_name]]
                doc == [data EXCEPT !.projects_cache =
                                        DictOf([i \in 1..Len(rs) |-> rs[i].name], entries),
                                    !.projects_last_update = Now]
                total == SumSeq([i \in 1..Len(rs) |-> Len(rs[i].ips)])
                attached == SumSeq([i \in 1..Len(rs) |-> Attached(rs[i].ips)])
                free == SumSeq([i \in 1..Len(rs) |-> Len(rs[i].ips) - Attached(rs[i].ips)])
            IN Return(doc,
                      [op |-> "api_projects_refresh", ok |-> TRUE, total_ips |-> total,
                       attached |-> attached, free |-> free, last_update |-> Now],
                      {"load", "save", "http"})

(***************************************************************************)
(* The pages that show aggregate counts (main.py 153-188, 552-597,         *)
(* 676-806).  The tenants, sales, rentals and pricing keys of the document *)
(* are passed through to the template and are not part of the model.       *)
(***************************************************************************)
\* list.sort(key=...) and sorted(..., key=...): a stable sort of items that
\* carry their key as the field rank
RECURSIVE InsertRank(_, _)
InsertRank(sorted, x) ==
    IF sorted = <<>> THEN <<x>>
    ELSE IF Head(sorted).rank <= x.rank THEN <<Head(sorted)>> \o InsertRank(Tail(sorted), x)
    ELSE <<x>> \o sorted

RECURSIVE SortRanked(_)
SortRanked(items) ==
    IF items = <<>> THEN <<>>
    ELSE InsertRank(SortRanked(SubSeq(items, 1, Len(items) - 1)), items[Len(items)])

\* the keys of a cache in the order of dict.items(): the order the refresh
\* inserted them in, which is the order of the servers and their scripts
RECURSIVE KeySeq(_)
KeySeq(keys) ==
    IF keys = {} THEN <<>>
    ELSE LET k == CHOOSE x \in keys :
                      \A y \in keys : x[1] < y[1] \/ (x[1] = y[1] /\ x[2] <= y[2])
         IN <<k>> \o KeySeq(keys \ {k})

RECURSIVE Flatten(_)
Flatten(lists) == IF lists = <<>> THEN <<>> ELSE Head(lists) \o Flatten(Tail(lists))

\* a faulty count whose free counter takes every address read
Stats_free_all(ips) ==
    [total |-> Len(ips),
     attached |-> Cardinality({i \in 1..Len(ips) : ips[i].attached}),
     free |-> Len(ips)]

\* stats = {"total": 0, "attached": 0, "free": 0} and the loop over the
\* addresses read (main.py 571-576, 771-776; 169-176 for one project)
Stats(ips) ==
    [total |-> Len(ips),
     attached |-> Cardinality({i \in 1..Len(ips) : ips[i].attached}),
     free |-> Cardinality({i \in 1..Len(ips) : ~ips[i].attached})]

\* the position of x["account"] or "" and x["ip"] or "" in the order of strings
AccountRank(account) ==
    CASE account = "user1" -> 1
      [] OTHER -> 0

IpRank(ip) ==
    CASE ip = "1.1.1.1" -> 1
      [] ip = "1.1.1.2" -> 2
      [] ip = "1.1.1.5" -> 3
      [] OTHER -> 0

\* the rows of one cloud record (main.py 568-586)
CloudRows(record) ==
    [i \in 1..Len(record.ips) |->
        [ip |-> record.ips[i].ip, account |-> record.account, project |-> record.project,
         attached |-> record.ips[i].attached, fixed_ip |-> record.ips[i].fixed_ip,
         status |-> record.ips[i].status, id |-> record.ips[i].id,
         rank |-> 4 * AccountRank(record.account) + IpRank(record.ips[i].ip)]]

\* servers_page (main.py 153-188)
servers_page ==
    /\ Idle
    /\ requests < MaxRequests
    /\ LET d == load_data(disk)
           WithStats(proj) ==
               LET stats == Stats(DictGet(DictGet(d.projects_cache, proj.name, EmptyDict),
                                          "ips", <<>>))
               IN [total_ips |-> stats.total, attached_ips |-> stats.attached,
                   free_ips |-> stats.total - stats.attached] @@ proj
       IN Handled([op |-> "servers_page",
                   servers |-> d.servers,
                   projects |-> [i \in 1..Len(d.projects) |-> WithStats(d.projects[i])],
                   projects_cache |-> d.projects_cache,
                   status_cache |-> d.status_cache,
                   last_update |-> d.last_update],
                  {"load"})
    /\ disk' = disk

\* cloud_ips_page (main.py 552-597)
cloud_ips_page ==
    /\ Idle
    /\ requests < MaxRequests
    /\ LET d == load_data(disk)
           keys == KeySeq(DOMAIN d.cloud_cache)
           rows == Flatten([i \in 1..Len(keys) |-> CloudRows(d.cloud_cache[keys[i]])])
           ips == Flatten([i \in 1..Len(keys) |-> d.cloud_cache[keys[i]].ips])
       IN Handled([op |-> "cloud_ips_page",
                   all_ips |-> SortRanked(rows),
                   stats |-> Stats(ips),
                   last_update |-> d.cloud_last_update],
                  {"load"})
    /\ disk' = disk

\* project_scripts_map (main.py 691-711): the agents of the status cache that
\* report the project label
ScriptsOfProject(d, label) ==
    LET keys == KeySeq(DOMAIN d.status_cache)
        Reports(k) == DictGet(d.status_cache[k], "project", None) = label
        Row(k) == [server_id |-> k[1], script_id |-> k[2],
                   server_name |-> DictGet(d.status_cache[k], "server_name", "?"),
                   script_name |-> DictGet(d.status_cache[k], "script_name", "?"),
                   running |-> DictGet(d.status_cache[k], "running", FALSE),
                   cycles |-> DictGet(d.status_cache[k], "cycles", 0),
                   success |-> DictGet(d.status_cache[k], "success", 0),
                   last_ip |-> DictGet(d.status_cache[k], "last_ip", None),
                   error |-> DictGet(d.status_cache[k], "error", None)]
        found == SelectSeq(keys, Reports)
    IN IF NonEmpty(label) THEN [i \in 1..Len(found) |-> Row(found[i])] ELSE <<>>

\* proj_data of one project (main.py 742-758)
ProjData(d, proj) ==
    LET cached == DictGet(d.projects_cache, proj.name, EmptyDict)
        os_pname == DictGet(cached, "os_project_name", None)
        by_label == ScriptsOfProject(d, os_pname)
    IN [name |-> proj.name,
        os_project_name |-> os_pname,
        ips |-> DictGet(cached, "ips", <<>>),
        error |-> DictGet(cached, "error", None),
        scripts |-> IF by_label # <<>> THEN by_label ELSE ScriptsOfProject(d, proj.name)]

\* accounts_dict (main.py 760-769) and its sort by -total_ips (main.py 779)
Accounts(d, projs) ==
    LET Of(username) == {i \in 1..Len(d.projects) : d.projects[i].username = username}
        First(i) == \A j \in Of(d.projects[i].username) : i <= j
        firsts == SelectSeq([i \in 1..Len(d.projects) |-> i], First)
        Mine(i) == LET Same(j) == d.projects[j].username = d.projects[i].username
                   IN SelectSeq([j \in 1..Len(d.projects) |-> j], Same)
        Account(i) ==
            LET mine == Mine(i)
                total == SumSeq([j \in 1..Len(mine) |-> Len(projs[mine[j]].ips)])
            IN [username |-> d.projects[i].username,
                projects |-> [j \in 1..Len(mine) |-> projs[mine[j]]],
                total_ips |-> total,
                rank |-> 0 - total]
    IN SortRanked([i \in 1..Len(firsts) |-> Account(firsts[i])])

\* servers_scripts_info (main.py 714-733)
ServersScriptsInfo(d) ==
    LET Info(server, script) ==
            LET cached == DictGet(d.status_cache, cache_key(server, script), EmptyDict)
            IN [id |-> script.id, name |-> script.name,
                running |-> DictGet(cached, "running", FALSE),
                project |-> DictGet(cached, "project", "-"),
                account |-> DictGet(cached, "account", "-"),
                cycles |-> DictGet(cached, "cycles", 0),
                success |-> DictGet(cached, "success", 0)]
    IN [i \in 1..Len(d.servers) |->
           [id |-> d.servers[i].id, name |-> d.servers[i].name,
            scripts |-> [j \in 1..Len(d.servers[i].scripts) |->
                            Info(d.servers[i], d.servers[i].scripts[j])]]]

\* projects_page (main.py 676-806)
projects_page ==
    /\ Idle
    /\ requests < MaxRequests
    /\ LET d == load_data(disk)
           projs == [i \in 1..Len(d.projects) |-> ProjData(d, d.projects[i])]
           ips == Flatten([i \in 1..Len(projs) |-> projs[i].ips])
           scripts == Flatten([i \in 1..Len(projs) |-> projs[i].scripts])
       IN Handled([op |-> "projects_page",
                   accounts |-> Accounts(d, projs),
                   total_projects |-> Len(d.projects),
                   stats |-> Stats(ips),
                   scripts_active |-> Cardinality({i \in 1..Len(scripts) : scripts[i].running}),
                   scripts_total |-> Len(scripts),
                   servers_scripts |-> ServersScriptsInfo(d),
                   last_update |-> d.projects_last_update],
                  {"load"})
    /\ disk' = disk

(***************************************************************************)
(* The handlers that act on one agent or change the configuration          *)
(* (main.py 224-236, 319-454).  The request is the panel's own AJAX call.  *)
(***************************************************************************)
\* get_server_by_id and get_script_by_id (data.py 64-71): the first item with
\* the id, as a one-element sequence, or <<>> for None
get_server_by_id(d, server_id) ==
    LET HasId(s) == s.id = server_id
        found == SelectSeq(d.servers, HasId)
    IN IF found = <<>> THEN <<>> ELSE <<Head(found)>>

get_script_by_id(server, script_id) ==
    LET HasId(s) == s.id = script_id
        found == SelectSeq(server.scripts, HasId)
    IN IF found = <<>> THEN <<>> ELSE <<Head(found)>>

\* a faulty update that keeps only the entry it writes
update_status_cache_replacing(d, server_id, script_id, status, now) ==
    [d EXCEPT !.status_cache = (<<server_id, script_id>> :> status),
              !.last_update = now]

\* update_status_cache (data.py 74-80): one entry is written, the other entries
\* stay, and last_update is set to the current time
update_status_cache(d, server_id, script_id, status, now) ==
    [d EXCEPT !.status_cache = (<<server_id, script_id>> :> status) @@ @,
              !.last_update = now]

\* the dict both handlers pass to update_status_cache (main.py 371-383, 435-447)
StatusEntry(server, script, new_status) ==
    [server_id |-> server.id,
     script_id |-> script.id,
     server_name |-> server.name,
     script_name |-> script.name,
     running |-> new_status.running,
     cycles |-> new_status.cycles,
     success |-> new_status.success,
     last_ip |-> new_status.last_ip,
     error |-> new_status.error,
     account |-> new_status.account,
     project |-> new_status.project]

\* the actions a request may name, and what the host may answer to the
\* systemctl command and to the status read that follows a success
PanelActions == {"start", "stop", "status"}

ControlPollArgs ==
    { [connect |-> 1, cmd |-> 1],
      [connect |-> 1, cmd |-> 3],
      [connect |-> 2, cmd |-> 1] }

AfterPollArgs ==
    { [connect |-> 1, active |-> 1, env |-> 1, state |-> 11],
      [connect |-> 1, active |-> 2, env |-> 3, state |-> 1],
      [connect |-> 2, active |-> 1, env |-> 1, state |-> 1] }

ChangePollArgs ==
    { [file |-> 1, connect |-> 1, read |-> 1, write |-> 1, restart |-> 1],
      [file |-> 2, connect |-> 1, read |-> 1, write |-> 1, restart |-> 2],
      [file |-> 1, connect |-> 1, read |-> 2, write |-> 1, restart |-> 1] }

\* delete_server (main.py 224-236)
delete_server ==
    /\ Idle
    /\ requests < MaxRequests
    /\ \E server_id \in 1..(MaxId(load_data(disk).servers) + 1) :
         LET d == load_data(disk)
             Other(s) == s.id # server_id
             doc == [d EXCEPT !.servers = SelectSeq(@, Other)]
         IN IF get_server_by_id(d, server_id) # <<>>
            THEN /\ disk' \in save_data(disk, doc)
                 /\ Handled([op |-> "delete_server"], {"load", "save"})
            ELSE /\ disk' = disk
                 /\ Handled([op |-> "delete_server"], {"load"})

\* delete_script (main.py 319-334)
delete_script ==
    /\ Idle
    /\ requests < MaxRequests
    /\ \E server_id \in 1..(MaxId(load_data(disk).servers) + 1), script_id \in 1..2 :
         LET d == load_data(disk)
             found == get_server_by_id(d, server_id)
         IN IF found # <<>> /\ get_script_by_id(found[1], script_id) # <<>>
            THEN LET i == CHOOSE j \in 1..Len(d.servers) : d.servers[j].id = server_id
                     Other(s) == s.id # script_id
                     doc == [d EXCEPT !.servers[i].scripts = SelectSeq(@, Other)]
                 IN /\ disk' \in save_data(disk, doc)
                    /\ Handled([op |-> "delete_script"], {"load", "save"})
            ELSE /\ disk' = disk
                 /\ Handled([op |-> "delete_script"], {"load"})

\* script_action (main.py 337-397)
script_action ==
    /\ Idle
    /\ requests < MaxRequests
    /\ \E server_id \in 1..(MaxId(load_data(disk).servers) + 1), script_id \in 1..2,
          action \in PanelActions, control \in ControlPollArgs, after \in AfterPollArgs :
         IF action \notin {"start", "stop", "restart"}
         THEN /\ disk' = disk
              /\ Handled([op |-> "script_action", ok |-> FALSE, error |-> "Invalid action"], {})
         ELSE
         LET d == load_data(disk)
             found == get_server_by_id(d, server_id)
         IN IF found = <<>>
            THEN /\ disk' = disk
                 /\ Handled([op |-> "script_action", ok |-> FALSE, error |-> "Server not found"],
                            {"load"})
            ELSE IF get_script_by_id(found[1], script_id) = <<>>
            THEN /\ disk' = disk
                 /\ Handled([op |-> "script_action", ok |-> FALSE, error |-> "Script not found"],
                            {"load"})
            ELSE LET server == found[1]
                     script == get_script_by_id(server, script_id)[1]
                     out == control_script(action,
                                [connect |-> ConnectReplies[control.connect],
                                 cmd |-> ControlReplies[control.cmd]])
                     new_status == get_script_status(StatusReply(after))
                     doc == update_status_cache(d, server_id, script_id,
                                                StatusEntry(server, script, new_status), Now)
                     response == [op |-> "script_action", ok |-> out.success,
                                  message |-> out.message, action |-> action,
                                  running |-> out.success /\ action \in {"start", "restart"}]
                 IN IF out.success
                    THEN /\ disk' \in save_data(disk, doc)
                         /\ Handled(response, {"load", "ssh", "save"})
                    ELSE /\ disk' = disk
                         /\ Handled(response, {"load", "ssh"})

\* api_change_project (main.py 400-454)
api_change_project ==
    /\ Idle
    /\ requests < MaxRequests
    /\ \E server_id \in 1..(MaxId(load_data(disk).servers) + 1), script_id \in 1..2,
          project_name \in ProjectNames, change \in ChangePollArgs, after \in AfterPollArgs :
         LET d == load_data(disk)
             found == get_server_by_id(d, server_id)
             Named(p) == p.name = project_name
             projects == SelectSeq(d.projects, Named)
         IN IF found = <<>>
            THEN /\ disk' = disk
                 /\ Handled([op |-> "api_change_project", ok |-> FALSE,
                             error |-> "Server not found"], {"load"})
            ELSE IF get_script_by_id(found[1], script_id) = <<>>
            THEN /\ disk' = disk
                 /\ Handled([op |-> "api_change_project", ok |-> FALSE,
                             error |-> "Script not found"], {"load"})
            ELSE IF projects = <<>>
            THEN /\ disk' = disk
                 /\ Handled([op |-> "api_change_project", ok |-> FALSE,
                             error |-> "Project not found"], {"load"})
            ELSE LET server == found[1]
                     script == get_script_by_id(server, script_id)[1]
                     stored == Head(projects)
                     os_pname == DictGet(DictGet(d.projects_cache, stored.name, EmptyDict),
                                         "os_project_name", None)
                     project == [name |-> stored.name, username |-> stored.username,
                                 password |-> stored.password, auth_url |-> stored.auth_url,
                                 project_id |-> stored.project_id,
                                 os_project_name |-> os_pname]
                     out == change_script_project(project, EnvFiles[change.file],
                                [connect |-> ConnectReplies[change.connect],
                                 read |-> ReadReplies[change.read],
                                 write |-> WriteReplies[change.write].reply,
                                 wrote |-> WriteReplies[change.write].wrote,
                                 restart |-> RestartReplies[change.restart]])
                     new_status == get_script_status(
                                       [StatusReply(after) EXCEPT !.env = GrepLabels(out.file)])
                     doc == update_status_cache(d, server_id, script_id,
                                                StatusEntry(server, script, new_status), Now)
                     response == [op |-> "api_change_project", ok |-> out.success,
                                  message |-> out.message,
                                  project |-> IF out.success THEN project_name ELSE None]
                 IN IF out.success
                    THEN /\ disk' \in save_data(disk, doc)
                         /\ Handled(response, {"load", "ssh", "save"})
                    ELSE /\ disk' = disk
                         /\ Handled(response, {"load", "ssh"})

(***************************************************************************)
(* Specifications.                                                         *)
(***************************************************************************)
NoCall == /\ fnName = "none"
          /\ fnArg = [connect |-> 0]
          /\ fnOut = <<>>
          /\ fnRaised = <<>>
          /\ fnFile = <<>>
          /\ fnRead = <<>>

SysInit ==
    /\ disk = NoFile
    /\ pc = "idle"
    /\ data = EmptyDoc
    /\ tasks = <<>>
    /\ started = 0
    /\ inflight = {}
    /\ results = EmptyDict
    /\ replies = EmptyDict
    /\ resp = [op |-> "none"]
    /\ io = {}
    /\ requests = 0

Init == SysInit /\ NoCall

Next ==
    \/ add_server
    \/ add_script
    \/ api_add_project
    \/ add_projects_main
    \/ dashboard
    \/ server_scripts
    \/ servers_page
    \/ cloud_ips_page
    \/ projects_page
    \/ delete_server
    \/ delete_script
    \/ script_action
    \/ api_change_project
    \/ api_refresh_status_submit
    \/ api_cloud_refresh_submit
    \/ api_projects_refresh_submit
    \/ worker_start
    \/ worker_finish
    \/ api_refresh_status_return
    \/ api_cloud_refresh_return
    \/ api_projects_refresh_return

Spec == Init /\ [][Next]_vars

\* the pool's workers are operating-system threads and every remote call is
\* bounded by its connect and execution timeouts: a started call finishes, a
\* free worker takes the next target, and the handler resumes after the join
LiveSpec ==
    /\ Spec
    /\ WF_vars(worker_start)
    /\ WF_vars(worker_finish)
    /\ WF_vars(api_refresh_status_return)
    /\ WF_vars(api_cloud_refresh_return)
    /\ WF_vars(api_projects_refresh_return)

\* FnSpec: one function of ssh.py or openstack.py applied to one input of its
\* input space; after change_script_project, get_script_status reads the file
\* the call left on the host
FnInit ==
    /\ SysInit
    /\ fnOut = <<>>
    /\ fnRaised = <<>>
    /\ fnRead = <<>>
    /\ \/ fnName = "get_script_status" /\ fnArg \in StatusArgs /\ fnFile = <<>>
       \/ fnName = "get_project_floating_ips" /\ fnArg \in InventoryArgs /\ fnFile = <<>>
       \/ fnName = "get_floating_ips_via_cli" /\ fnArg \in CliArgs /\ fnFile = <<>>
       \/ fnName = "control_script" /\ fnArg \in ControlArgs /\ fnFile = <<>>
       \/ fnName = "change_script_project" /\ fnArg \in ChangeArgs
                                           /\ fnFile = EnvFiles[fnArg.file]
       \/ fnName = "fetch_log" /\ fnArg \in LogArgs /\ fnFile = <<>>
       \/ fnName = "api_get_logs" /\ fnArg \in LogArgs /\ fnFile = <<>>

NotCalled == fnOut = <<>> /\ fnRaised = <<>>

call_get_script_status ==
    /\ fnName = "get_script_status" /\ NotCalled
    /\ fnOut' = <<get_script_status(StatusReply(fnArg))>>
    /\ UNCHANGED <<sysVars, fnName, fnArg, fnRaised, fnFile, fnRead>>

call_get_project_floating_ips ==
    /\ fnName = "get_project_floating_ips" /\ NotCalled
    /\ LET outcome == get_project_floating_ips_call(ProjectRecords[fnArg.project],
                                                    InventoryReply(fnArg))
       IN IF outcome.raised
          THEN fnRaised' = <<outcome.value>> /\ fnOut' = fnOut
          ELSE fnOut' = <<outcome.value>> /\ fnRaised' = fnRaised
    /\ UNCHANGED <<sysVars, fnName, fnArg, fnFile, fnRead>>

call_get_floating_ips_via_cli ==
    /\ fnName = "get_floating_ips_via_cli" /\ NotCalled
    /\ fnOut' = <<get_floating_ips_via_cli(CliReply(fnArg))>>
    /\ UNCHANGED <<sysVars, fnName, fnArg, fnRaised, fnFile, fnRead>>

call_control_script ==
    /\ fnName = "control_script" /\ NotCalled
    /\ fnOut' = <<control_script(fnArg.action, ControlReply(fnArg))>>
    /\ UNCHANGED <<sysVars, fnName, fnArg, fnRaised, fnFile, fnRead>>

call_change_script_project ==
    /\ fnName = "change_script_project" /\ NotCalled
    /\ LET out == change_script_project(RebindProjects[fnArg.project], fnFile,
                                        ChangeReply(fnArg))
       IN /\ fnOut' = <<out>>
          /\ fnFile' = out.file
    /\ UNCHANGED <<sysVars, fnName, fnArg, fnRaised, fnRead>>

\* the same rebind requested once more after a success: the second call reads
\* the file the first call left on the host
call_change_script_project_again ==
    /\ fnName = "change_script_project" /\ Len(fnOut) = 1 /\ fnOut[1].success
    /\ LET out == change_script_project(RebindProjects[fnArg.project], fnFile,
                                        ChangeReply(fnArg))
       IN /\ fnOut' = Append(fnOut, out)
          /\ fnFile' = out.file
    /\ UNCHANGED <<sysVars, fnName, fnArg, fnRaised, fnRead>>

\* get_script_status of the same agent after the change: its grep reads the file
call_get_script_status_after ==
    /\ fnName = "change_script_project" /\ fnOut # <<>> /\ fnRead = <<>>
    /\ fnRead' = <<get_script_status([connect |-> ConnectOk,
                                      active |-> ActiveReplies[1],
                                      env |-> GrepLabels(fnFile),
                                      state |-> StateReplies[1]])>>
    /\ UNCHANGED <<sysVars, fnName, fnArg, fnOut, fnRaised, fnFile>>

call_fetch_log ==
    /\ fnName = "fetch_log" /\ NotCalled
    /\ fnOut' = <<fetch_log(LogReply(fnArg))>>
    /\ UNCHANGED <<sysVars, fnName, fnArg, fnRaised, fnFile, fnRead>>

call_api_get_logs ==
    /\ fnName = "api_get_logs" /\ NotCalled
    /\ fnOut' = <<api_get_logs(LogReply(fnArg))>>
    /\ UNCHANGED <<sysVars, fnName, fnArg, fnRaised, fnFile, fnRead>>

FnNext ==
    \/ call_fetch_log
    \/ call_api_get_logs
    \/ call_get_script_status
    \/ call_get_project_floating_ips
    \/ call_get_floating_ips_via_cli
    \/ call_control_script
    \/ call_change_script_project
    \/ call_change_script_project_again
    \/ call_get_script_status_after

FnSpec == FnInit /\ [][FnNext]_vars

(***************************************************************************)
(* Properties of the readers, checked under FnSpec.                        *)
(***************************************************************************)
StatusCalled == fnName = "get_script_status" /\ fnOut # <<>>

\* the session of get_script_status meets a call that raises: the connect, or
\* one of the three commands (an earlier raise ends the session)
TransportFailed(arg) ==
    \/ ConnectReplies[arg.connect].raised
    \/ ActiveReplies[arg.active].raised
    \/ EnvReplies[arg.env].raised
    \/ StateReplies[arg.state].raised

\* C7: when get_script_status meets a transport failure at any step of the
\* session (the connect, or a command that raises, also after the is-active
\* check or the credential read succeeded), the returned record has a populated
\* error and every other field at its default: running false, cycles 0,
\* success 0, last_ip None, account and project None.
C7_TransportFailureLeavesDefaults ==
    (StatusCalled /\ TransportFailed(fnArg)) =>
        /\ fnOut[1].error # None
        /\ [fnOut[1] EXCEPT !.error = None] = DefaultStatus

\* the state files of StateReplies that are missing or malformed: absent, empty,
\* unparsable, no object, or an object with a section of an unexpected shape
MalformedStates == 1..9

\* C8: for every missing or malformed state file, get_script_status returns (it
\* never raises) running as the is-active check gave it and cycles, success and
\* last_ip at their defaults 0, 0 and None.
C8_MalformedStateYieldsDefaults ==
    (StatusCalled /\ ~TransportFailed(fnArg) /\ fnArg.state \in MalformedStates) =>
        /\ fnOut[1].running = (Strip(ActiveReplies[fnArg.active].out) = "active")
        /\ fnOut[1].cycles = 0
        /\ fnOut[1].success = 0
        /\ fnOut[1].last_ip = None

InventoryCalled ==
    fnName \in {"get_project_floating_ips", "get_floating_ips_via_cli"} /\ fnOut # <<>>

\* C9: in the result of either inventory reader (the cloud API and the CLI), an
\* address is attached exactly when its port id is non-empty, whatever its
\* fixed IP and whether or not an instance name was resolved.
C9_AttachedIffPort ==
    InventoryCalled =>
        \A i \in 1..Len(fnOut[1].ips) :
            fnOut[1].ips[i].attached <=> NonEmpty(fnOut[1].ips[i].port_id)

(***************************************************************************)
(* Properties of the refresh handlers and the cache readers, checked       *)
(* under Spec.  After a refresh returned, tasks, results and replies still *)
(* hold its fan-out and data the document it built.                        *)
(***************************************************************************)
StatusRefreshed == pc = "idle" /\ resp.op = "api_refresh_status"

TargetKey(i) == cache_key(tasks[i].server, tasks[i].script)

\* C1: a status refresh over the N configured (server, script) targets, with
\* any of them failing, returns normally with updated = N and yields one result
\* record for each submitted target, stored under that target's key.
C1_OneRecordPerTarget ==
    StatusRefreshed =>
        /\ resp.ok
        /\ tasks = Targets(data.servers)
        /\ resp.updated = Len(tasks)
        /\ DOMAIN results = 1..Len(tasks)
        /\ DOMAIN data.status_cache = {TargetKey(i) : i \in 1..Len(tasks)}
        /\ Cardinality(DOMAIN data.status_cache) = Len(tasks)
        /\ \A i \in 1..Len(tasks) :
              /\ results[i].value.server_id = tasks[i].server.id
              /\ results[i].value.script_id = tasks[i].script.id
              /\ data.status_cache[TargetKey(i)] = results[i].value

\* three targets on one server: one unreachable, one answering, one whose state
\* file is malformed
C1_Witness ==
    /\ StatusRefreshed
    /\ Len(tasks) = 3
    /\ resp.updated = 3
    /\ \E i, j, k \in 1..3 :
          /\ replies[i].connect = 2
          /\ replies[j].state = 11
          /\ replies[k].state = 7

FanOutReturned ==
    /\ pc = "idle"
    /\ resp.op \in {"api_refresh_status", "api_cloud_refresh", "api_projects_refresh"}
    /\ tasks # <<>>

\* the call of target i met an exception: a call of the session raised, or the
\* answer had a shape the reader's code does not expect
Excepted(i) ==
    CASE resp.op = "api_refresh_status" ->
             TransportFailed(replies[i]) \/ replies[i].state \in 4..9
      [] resp.op = "api_cloud_refresh" ->
             \/ ConnectReplies[replies[i].connect].raised
             \/ ListingReplies[replies[i].listing].raised
             \/ EnvReplies[replies[i].env].raised
             \/ replies[i].listing \in {4, 5}
      [] resp.op = "api_projects_refresh" ->
             \/ AuthReplies[replies[i].auth].raised
             \/ FipsReplies[replies[i].fips].raised

\* the error field of target i's result
ErrorOf(i) ==
    IF resp.op = "api_cloud_refresh" THEN results[i].value.data.error
    ELSE results[i].value.error

\* C2: in each of the three fan-outs, an exception met while one target is
\* processed does not leave the poll (the refresh answers ok) and does not
\* cancel the siblings: every target has a returned result of the same shape,
\* with the error set for exactly the targets that met an exception.
C2_ExceptionBecomesErrorResult ==
    FanOutReturned =>
        /\ resp.ok
        /\ DOMAIN results = 1..Len(tasks)
        /\ \A i \in 1..Len(tasks) :
              /\ ~results[i].raised
              /\ DOMAIN results[i].value = DOMAIN results[1].value
              /\ Excepted(i) <=> ErrorOf(i) # None

\* two projects: the token request of one is refused, the other lists its addresses
C2_Witness ==
    /\ FanOutReturned
    /\ resp.op = "api_projects_refresh"
    /\ Len(tasks) = 2
    /\ \E i, j \in 1..2 :
          /\ replies[i].auth = 4
          /\ results[i].value.error = "HTTP 401"
          /\ replies[j].auth = 1
          /\ results[j].value.error = None
          /\ Len(results[j].value.ips) = 2

\* C3: a refresh leaves DATA_FILE either holding the document with the replaced
\* cache or, when the save failed, exactly as it was before: never truncated.
C3_RefreshSavesAtomically ==
    [][(pc # "idle" /\ pc' = "idle") => (disk' = Stored(data') \/ disk' = disk)]_vars

\* C4: a read of the merged view (dashboard, server_scripts) opens no remote
\* session, sends no cloud request and starts no poll: it only loads the
\* document, and DATA_FILE is left unchanged.
C4_ViewReadsOnlyTheCache ==
    [][(requests' = requests + 1 /\ resp'.op \in {"dashboard", "server_scripts"}) =>
           /\ io' = {"load"}
           /\ disk' = disk
           /\ pc' = "idle"
           /\ inflight' = {}]_vars

\* the dashboard read after a refresh cached an agent's status
C4_Witness ==
    /\ pc = "idle"
    /\ resp.op = "dashboard"
    /\ resp.total_scripts = 1
    /\ resp.running_scripts = 1
    /\ io = {"load"}
    /\ disk.file = "ok"
    /\ disk.doc.last_update # NoTime

Unreachable(i) == ConnectReplies[replies[i].connect].raised

\* C6: after a status refresh during which some host was unreachable, the
\* cached record of every agent whose connect failed has running = FALSE and an
\* error, the record of every other agent carries what its own session read
\* (running as its is-active check answered), and updated is the number of
\* configured agents.
C6_UnreachableHostIsolated ==
    StatusRefreshed =>
        /\ resp.ok
        /\ resp.updated = Len(Targets(data.servers))
        /\ \A i \in 1..Len(tasks) :
              LET r == data.status_cache[TargetKey(i)] IN
              /\ r.server_id = tasks[i].server.id
              /\ r.script_id = tasks[i].script.id
              /\ IF Unreachable(i)
                 THEN r.running = FALSE /\ r.error # None
                 ELSE r.running = (Strip(ActiveReplies[replies[i].active].out) = "active")

\* two servers with one agent each: the first host is unreachable, the agent of
\* the second is read running with its counters
C6_Witness ==
    /\ StatusRefreshed
    /\ Len(data.servers) = 2
    /\ Len(tasks) = 2
    /\ resp.updated = 2
    /\ Unreachable(1)
    /\ data.status_cache[TargetKey(1)].error = "timed out"
    /\ ~Unreachable(2)
    /\ data.status_cache[TargetKey(2)].running
    /\ data.status_cache[TargetKey(2)].cycles = 4
    /\ data.status_cache[TargetKey(2)].error = None

\* the number of address entries a cache holds
CacheIps(cache) == SumOver(DOMAIN cache, [k \in DOMAIN cache |-> Len(cache[k].ips)])

\* C10: after an inventory refresh (api_projects_refresh, api_cloud_refresh),
\* attached + free = total_ips, and total_ips is the number of address entries
\* stored in the replaced inventory cache.
C10_CountsMatchTheCache ==
    (pc = "idle" /\ resp.op \in {"api_projects_refresh", "api_cloud_refresh"} /\ resp.ok) =>
        /\ resp.attached + resp.free = resp.total_ips
        /\ resp.total_ips = CacheIps(IF resp.op = "api_projects_refresh"
                                     THEN data.projects_cache
                                     ELSE data.cloud_cache)

(***************************************************************************)
(* Termination of a poll, checked under LiveSpec.                          *)
(***************************************************************************)
\* C5: every refresh that started its poll returns, and it returns only when
\* every submitted target was started and has finished: none is in flight.
C5_PollCompletes ==
    /\ (pc # "idle") ~> (pc = "idle")
    /\ [][(pc # "idle" /\ pc' = "idle") =>
             /\ started = Len(tasks)
             /\ inflight = {}
             /\ DOMAIN results = 1..Len(tasks)]_vars

\* a status refresh over more targets than the pool has workers has returned
C5_Witness ==
    /\ StatusRefreshed
    /\ resp.ok
    /\ Len(tasks) > MAX_SSH_WORKERS
    /\ started = Len(tasks)
    /\ inflight = {}

(***************************************************************************)
(* Properties of get_project_floating_ips, control_script and              *)
(* change_script_project, checked under FnSpec.                            *)
(***************************************************************************)
InventoryApiCalled ==
    fnName = "get_project_floating_ips" /\ (fnOut # <<>> \/ fnRaised # <<>>)

\* the call cannot list the addresses: the project record lacks a key, the
\* token request fails, or the catalog has no usable network endpoint
CannotList(arg) ==
    \/ DOMAIN ProjectRecords[arg.project] # DOMAIN SampleProject
    \/ AuthReplies[arg.auth].raised
    \/ ~NonEmpty(openstack_auth(AuthReplies[arg.auth].body).endpoints.network)

\* C11: get_project_floating_ips never raises: when the token request fails,
\* the catalog has no network endpoint or the project record is incomplete, it
\* returns a record with no addresses and an error, and the error of a refused
\* token request carries the HTTP status.
C11_InventoryNeverRaises ==
    InventoryApiCalled =>
        /\ fnRaised = <<>>
        /\ CannotList(fnArg) => (fnOut[1].ips = <<>> /\ fnOut[1].error # None)
        /\ (DOMAIN ProjectRecords[fnArg.project] = DOMAIN SampleProject
               /\ AuthReplies[fnArg.auth].raised /\ AuthReplies[fnArg.auth].http) =>
              fnOut[1].error = HttpText(AuthReplies[fnArg.auth].status)

\* the trace of the call under test
SessionOps ==
    IF fnName = "get_script_status" THEN get_script_status_ops(StatusReply(fnArg))
    ELSE fnOut[1].ops

SessionCalled ==
    fnName \in {"get_script_status", "control_script", "change_script_project"} /\ fnOut # <<>>

\* C14: when get_script_status, control_script or change_script_project
\* returns, on any path (success, early failure return, exception), the session
\* its connect opened has been closed: every successful connect of the trace is
\* followed by a close, and the close is the last thing the call did.
C14_SessionClosedOnEveryPath ==
    SessionCalled =>
        LET ops == SessionOps
            opened == {i \in 1..Len(ops) : ops[i] = "connect:ok"}
            closed == {i \in 1..Len(ops) : ops[i] = "close"}
        IN /\ Cardinality(opened) = Cardinality(closed)
           /\ opened # {} => ops[Len(ops)] = "close"

\* an exception in mid-session (the is-active command raises) and the early
\* return of change_script_project both end with the close
C14_Witness ==
    \/ /\ fnName = "get_script_status" /\ fnOut # <<>>
       /\ fnArg.connect = 1 /\ fnArg.active = 5
       /\ fnOut[1].error # None
       /\ SessionOps = <<"connect:ok", "exec:is-active", "close">>
    \/ /\ fnName = "change_script_project" /\ fnOut # <<>>
       /\ fnArg.connect = 1 /\ fnArg.read = 2
       /\ SessionOps = <<"connect:ok", "exec:cat-env", "close">>

ChangeCalled == fnName = "change_script_project" /\ fnOut # <<>>

\* a command failed: it raised, or it exited with a non-zero code
StepFailed(step) == step.raised \/ step.code # 0
\* the message of a failed command
StepText(step) == IF step.raised THEN step.msg ELSE step.err

Commands(ops) ==
    LET IsExec(op) == op \in {"exec:cat-env", "exec:write-env", "exec:restart"}
    IN SelectSeq(ops, IsExec)

\* C15: change_script_project reads the file, writes it and restarts the
\* service in this order and stops at the first command that fails; it then
\* reports failure with that command's message, and it reports success only
\* when all three commands succeeded.
C15_RebindStopsAtFirstFailure ==
    (ChangeCalled /\ ~ConnectReplies[fnArg.connect].raised) =>
        LET r == ChangeReply(fnArg)
            out == fnOut[1]
            all == <<"exec:cat-env", "exec:write-env", "exec:restart">>
        IN /\ IF StepFailed(r.read)
              THEN /\ Commands(out.ops) = SubSeq(all, 1, 1)
                   /\ ~out.success /\ out.message.text = StepText(r.read)
              ELSE IF StepFailed(r.write)
              THEN /\ Commands(out.ops) = SubSeq(all, 1, 2)
                   /\ ~out.success /\ out.message.text = StepText(r.write)
              ELSE IF StepFailed(r.restart)
              THEN /\ Commands(out.ops) = all
                   /\ ~out.success /\ out.message.text = StepText(r.restart)
              ELSE Commands(out.ops) = all /\ out.success
           /\ out.success <=>
                  ~(StepFailed(r.read) \/ StepFailed(r.write) \/ StepFailed(r.restart))

\* the write exits with a non-zero code: no restart, the failure names the write
C15_Witness ==
    /\ ChangeCalled
    /\ fnArg.connect = 1 /\ fnArg.read = 1 /\ fnArg.write = 2
    /\ ~fnOut[1].success
    /\ fnOut[1].message = Formatted("Failed to write .env: ", "bash: .env: Permission denied")
    /\ fnOut[1].ops = <<"connect:ok", "exec:cat-env", "exec:write-env", "close">>

\* the recognized keys for a project and the value each one gets
RecognizedKeys(project) ==
    {"OS_USERNAME", "OS_PASSWORD", "OS_PROJECT_ID", "OS_PROJECT_NAME"}
        \cup (IF NonEmpty(project.auth_url) THEN {"OS_AUTH_URL"} ELSE {})

NewValue(project, key) ==
    CASE key = "OS_USERNAME" -> project.username
      [] key = "OS_PASSWORD" -> project.password
      [] key = "OS_PROJECT_ID" -> IdText(project.project_id)
      [] key = "OS_PROJECT_NAME" -> IF NonEmpty(project.os_project_name)
                                    THEN project.os_project_name ELSE project.name
      [] key = "OS_AUTH_URL" -> project.auth_url

\* the call rewrote the file: the read succeeded and the write ran
Rewritten ==
    /\ ChangeCalled
    /\ ~ConnectReplies[fnArg.connect].raised
    /\ ~StepFailed(ReadReplies[fnArg.read])
    /\ WriteReplies[fnArg.write].wrote

\* C16: in the file change_script_project writes, every line whose key is a
\* recognized key (OS_AUTH_URL only when the project has one) holds the new
\* value, every other line (comment, blank, other key) is the old line at its
\* old position, and every recognized key that was absent is appended: each
\* recognized key is present with the new value.
C16_PatchReplacesKeepsAppends ==
    Rewritten =>
        LET project == RebindProjects[fnArg.project]
            keys == RecognizedKeys(project)
            old == EnvFiles[fnArg.file]
            new == fnOut[1].file
            Recognized(line) == line.kind = "assign" /\ line.key \in keys
        IN /\ Len(new) >= Len(old)
           /\ \A i \in 1..Len(old) :
                 IF Recognized(old[i])
                 THEN /\ new[i].kind = "assign"
                      /\ new[i].key = old[i].key
                      /\ new[i].value = NewValue(project, old[i].key)
                 ELSE new[i] = old[i]
           /\ \A k \in keys :
                 /\ \E i \in 1..Len(new) : Recognized(new[i]) /\ new[i].key = k
                 /\ \A i \in 1..Len(new) :
                       (Recognized(new[i]) /\ new[i].key = k) =>
                           new[i].value = NewValue(project, k)
                 /\ (\A i \in 1..Len(old) : ~(Recognized(old[i]) /\ old[i].key = k)) =>
                       \E i \in (Len(old) + 1)..Len(new) :
                           new[i] = AssignLine(FALSE, k, "\"", NewValue(project, k))

\* file 2 (one recognized key, a comment, a blank line, another key) rebound
\* to a project with an auth_url: one line replaced, three kept, four appended
C16_Witness ==
    /\ Rewritten
    /\ fnArg.file = 2 /\ fnArg.project = 2
    /\ fnOut[1].file[1] = CommentLine("# VK Cloud")
    /\ fnOut[1].file[2] = AssignLine(FALSE, "OS_USERNAME", "\"", "user2")
    /\ fnOut[1].file[3] = BlankLine(TRUE)
    /\ fnOut[1].file[4] = AssignLine(FALSE, "INTERVAL", "", "30")
    /\ fnOut[1].file[7] = AssignLine(FALSE, "OS_PROJECT_NAME", "\"", "mcs2")
    /\ fnOut[1].file[8] = AssignLine(FALSE, "OS_AUTH_URL", "\"", "https://id2")

\* C17: after a successful change_script_project, get_script_status of the
\* same agent reports account = the username written and project = the project
\* name written.
C17_RebindRoundTrip ==
    (ChangeCalled /\ fnOut[1].success /\ fnRead # <<>>) =>
        /\ fnRead[1].account = NewValue(RebindProjects[fnArg.project], "OS_USERNAME")
        /\ fnRead[1].project = NewValue(RebindProjects[fnArg.project], "OS_PROJECT_NAME")

ControlCalled == fnName = "control_script" /\ fnOut # <<>>

\* C18: control_script answers an action other than start, stop and restart
\* with a failure before it opens a session: the call attempts no connect.
C18_InvalidActionRejectedFirst ==
    (ControlCalled /\ fnArg.action \notin {"start", "stop", "restart"}) =>
        /\ ~fnOut[1].success
        /\ fnOut[1].message = InvalidActionText(fnArg.action)
        /\ fnOut[1].ops = <<>>

\* an invalid action for a host that would have refused the connection
C18_Witness ==
    /\ ControlCalled
    /\ fnArg.action = "status"
    /\ fnArg.connect = 2
    /\ fnOut[1] = Outcome(FALSE, "Invalid action: status", <<>>)

\* C19: for a valid action control_script returns (it never raises) success
\* exactly when the systemctl command exits with code 0; otherwise the message
\* is the command's stripped stderr, or its stripped stdout when stderr is
\* blank, or the exit-code note when both are blank; when the connect or the
\* command raises, the message is the exception's text.
C19_ControlResult ==
    (fnName = "control_script" /\ ~NotCalled /\ fnArg.action \in {"start", "stop", "restart"}) =>
        LET r == ControlReply(fnArg)
            out == fnOut[1]
        IN /\ fnRaised = <<>>
           /\ out.success <=> (~r.connect.raised /\ ~r.cmd.raised /\ r.cmd.code = 0)
           /\ r.connect.raised => out.message = r.connect.msg
           /\ (~r.connect.raised /\ r.cmd.raised) => out.message = r.cmd.msg
           /\ (~r.connect.raised /\ ~r.cmd.raised /\ r.cmd.code # 0) =>
                 out.message = (IF r.cmd.err.body # "" THEN r.cmd.err.body
                                ELSE IF r.cmd.out.body # "" THEN r.cmd.out.body
                                ELSE ExitCodeText(r.cmd.code))

\* a failed start whose stderr is blank and whose stdout holds the message
C19_Witness ==
    /\ ControlCalled
    /\ fnArg.action = "start" /\ fnArg.connect = 1 /\ fnArg.cmd = 4
    /\ fnOut[1].success = FALSE
    /\ fnOut[1].message = "Unit not loaded"

(***************************************************************************)
(* Properties of the status cache under script_action, api_change_project  *)
(* and the configuration handlers, checked under Spec.                     *)
(***************************************************************************)
\* what dashboard computes from the document it loads (main.py 103-150)
MergedView(d) ==
    LET targets == Targets(d.servers) IN
    [scripts_info |-> ScriptsInfo(d),
     total_scripts |-> Len(targets),
     running_scripts |-> Cardinality({i \in 1..Len(targets) : IsRunning(d, targets[i])}),
     last_update |-> IF d.last_update # NoTime THEN d.last_update ELSE d.cloud_last_update]

\* the step is a completed script_action or api_change_project request that
\* left a readable document
AgentRequestServed ==
    /\ requests' = requests + 1
    /\ resp'.op \in {"script_action", "api_change_project"}
    /\ disk.file = "ok"
    /\ disk'.file = "ok"

\* C12: the merged view read before and after a script_action or an
\* api_change_project request, with no refresh in between, is the same.
C12_ViewStableWithoutRefresh ==
    [][AgentRequestServed => MergedView(load_data(disk')) = MergedView(load_data(disk))]_vars

\* C13: the stored status cache changes only when api_refresh_status returns
\* and replaces the whole map: no other step changes it.
C13_CacheChangesOnlyByRefresh ==
    [][(disk.file = "ok" /\ disk'.file = "ok"
            /\ load_data(disk').status_cache # load_data(disk).status_cache)
       => (pc = "status" /\ pc' = "idle")]_vars

ConfiguredKeys(d) ==
    LET targets == Targets(d.servers)
    IN {cache_key(targets[i].server, targets[i].script) : i \in 1..Len(targets)}

\* C20: when api_refresh_status has returned, the keys of the status cache it
\* built and saved are exactly the configured (server, script) pairs: an entry
\* of a pair that was removed since the last refresh is gone.
C20_CacheKeysAreConfiguredPairs ==
    StatusRefreshed /\ resp.ok =>
        /\ DOMAIN data.status_cache = ConfiguredKeys(data)
        /\ disk = Stored(data) => DOMAIN disk.doc.status_cache = ConfiguredKeys(disk.doc)

\* an agent that a cloud refresh had polled was deleted (its key is still in
\* the cloud cache): the status refresh that follows saves a cache without it
C20_Witness ==
    /\ StatusRefreshed /\ resp.ok
    /\ disk = Stored(data)
    /\ <<1, 1>> \in DOMAIN disk.doc.cloud_cache
    /\ <<1, 1>> \notin ConfiguredKeys(disk.doc)
    /\ DOMAIN disk.doc.status_cache = ConfiguredKeys(disk.doc)
    /\ disk.doc.last_update = requests

(***************************************************************************)
(* Properties of the merged view and of the aggregate counts, checked      *)
(* under Spec.                                                             *)
(***************************************************************************)
\* the record dashboard takes an agent's address list and cloud error from
\* (main.py 119), and the project label the agent's status record reports
CloudRecordOf(d, key) == DictGet(d.cloud_cache, key, EmptyDict)
ObservedLabel(d, key) == DictGet(DictGet(d.status_cache, key, EmptyDict), "project", None)

\* the addresses or the error shown for an agent that reports a project come
\* from a record of that project
ViewFollowsLabel(d) ==
    \A key \in ConfiguredKeys(d) :
        LET cloud == CloudRecordOf(d, key)
            label == ObservedLabel(d, key)
            shown == Combined(d, key)
        IN (NonEmpty(label) /\ (shown.floating_ips # <<>> \/ shown.cloud_error # None))
               => cloud.project = label

\* C21: in the merged view the address list and the cloud error of an agent
\* come from the cloud record whose project is the project the agent's status
\* record reports: after api_change_project rebound an agent, the view shows the
\* addresses of the project the agent now reports.
C21_ViewFollowsObservedProject ==
    [][(requests' = requests + 1 /\ resp'.op = "api_change_project" /\ resp'.ok
            /\ disk'.file = "ok")
       => ViewFollowsLabel(load_data(disk'))]_vars

\* the status dicts a served dashboard or server_scripts request shows, with
\* the key of the agent each one belongs to
ViewServed == resp.op \in {"dashboard", "server_scripts"} /\ disk.file = "ok"

ShownKeys ==
    IF resp.op = "dashboard"
    THEN {<<resp.scripts_info[i].server_id, resp.scripts_info[i].script.id>> :
              i \in 1..Len(resp.scripts_info)}
    ELSE IF "scripts" \in DOMAIN resp
    THEN {<<resp.server.id, resp.scripts[i].script.id>> : i \in 1..Len(resp.scripts)}
    ELSE {}

Shown(key) ==
    IF resp.op = "dashboard"
    THEN resp.scripts_info[CHOOSE i \in 1..Len(resp.scripts_info) :
             <<resp.scripts_info[i].server_id, resp.scripts_info[i].script.id>> = key].status
    ELSE resp.scripts[CHOOSE i \in 1..Len(resp.scripts) : resp.scripts[i].script.id = key[2]].status

StatusFields == {"running", "cycles", "success", "last_ip"}

\* C22: in the status dict dashboard and server_scripts show for an agent, the
\* account and the project are those of the status record when they are
\* non-empty there and those of the cloud record otherwise, and running,
\* cycles, success and last_ip are those of the status record.
C22_LabelsPreferStatus ==
    ViewServed =>
        \A key \in ShownKeys :
            LET cached == DictGet(disk.doc.status_cache, key, EmptyDict)
                cloud == DictGet(disk.doc.cloud_cache, key, EmptyDict)
                shown == Shown(key)
                Label(f) == IF NonEmpty(DictGet(cached, f, None)) THEN cached[f]
                            ELSE DictGet(cloud, f, None)
            IN /\ shown.account = Label("account")
               /\ shown.project = Label("project")
               /\ \A f \in StatusFields :
                     IF f \in DOMAIN cached
                     THEN f \in DOMAIN shown /\ shown[f] = cached[f]
                     ELSE f \notin DOMAIN shown

\* the status record has a project and no account, the cloud record has
\* another project and an account: the view shows the status record's project
\* and the cloud record's account
C22_Witness ==
    /\ ViewServed
    /\ resp.op = "dashboard"
    /\ <<1, 1>> \in ShownKeys
    /\ <<1, 1>> \in DOMAIN disk.doc.status_cache
    /\ <<1, 1>> \in DOMAIN disk.doc.cloud_cache
    /\ disk.doc.status_cache[<<1, 1>>].account = None
    /\ disk.doc.status_cache[<<1, 1>>].project = "proj2"
    /\ disk.doc.cloud_cache[<<1, 1>>].project = "proj1"
    /\ Shown(<<1, 1>>).account = "user1"
    /\ Shown(<<1, 1>>).project = "proj2"
    /\ Shown(<<1, 1>>).cycles = 5

\* the address list of the projects cache a page reads for a project
CachedIps(d, proj) == DictGet(DictGet(d.projects_cache, proj.name, EmptyDict), "ips", <<>>)

PageServed == resp.op \in {"servers_page", "cloud_ips_page", "projects_page"} /\ disk.file = "ok"

\* C23: the counts a page shows are those of the address lists it read from
\* the stored caches: total is the number of entries, attached the number of
\* entries with attached = true, free is total - attached (servers_page per
\* project, cloud_ips_page over the cloud cache, projects_page over the
\* configured projects' records).
C23_CountsRecomputedFromLists ==
    PageServed =>
        LET d == disk.doc IN
        CASE resp.op = "servers_page" ->
                 /\ Len(resp.projects) = Len(d.projects)
                 /\ \A i \in 1..Len(d.projects) :
                       LET ips == CachedIps(d, d.projects[i]) IN
                       /\ resp.projects[i].total_ips = Len(ips)
                       /\ resp.projects[i].attached_ips = Attached(ips)
                       /\ resp.projects[i].free_ips = Len(ips) - Attached(ips)
          [] resp.op = "cloud_ips_page" ->
                 LET total == SumOver(DOMAIN d.cloud_cache,
                                      [k \in DOMAIN d.cloud_cache |-> Len(d.cloud_cache[k].ips)])
                     attached == SumOver(DOMAIN d.cloud_cache,
                                         [k \in DOMAIN d.cloud_cache |-> Attached(d.cloud_cache[k].ips)])
                 IN /\ resp.stats = [total |-> total, attached |-> attached,
                                     free |-> total - attached]
                    /\ Len(resp.all_ips) = total
          [] resp.op = "projects_page" ->
                 LET total == SumSeq([i \in 1..Len(d.projects) |-> Len(CachedIps(d, d.projects[i]))])
                     attached == SumSeq([i \in 1..Len(d.projects) |->
                                            Attached(CachedIps(d, d.projects[i]))])
                 IN resp.stats = [total |-> total, attached |-> attached,
                                  free |-> total - attached]

\* a page over a cache that holds an attached and a free address
C23_Witness ==
    /\ PageServed
    /\ \/ /\ resp.op = "projects_page"
          /\ "p" \in DOMAIN disk.doc.projects_cache
          /\ Len(disk.doc.projects_cache["p"].ips) = 2
          /\ resp.stats = [total |-> 2, attached |-> 1, free |-> 1]
       \/ /\ resp.op = "cloud_ips_page"
          /\ <<1, 1>> \in DOMAIN disk.doc.cloud_cache
          /\ resp.stats = [total |-> 2, attached |-> 1, free |-> 1]
          /\ resp.all_ips[1].ip = "1.1.1.1" /\ resp.all_ips[2].ip = "1.1.1.2"

(***************************************************************************)
(* Properties of the worker pools, checked under Spec.                     *)
(***************************************************************************)
\* C24: while a refresh polls, the number of calls in flight is at most the
\* configured pool size of its kind: MAX_SSH_WORKERS for api_refresh_status,
\* MAX_CLOUD_WORKERS for api_cloud_refresh and api_projects_refresh.  A call
\* holds at most one session, so at most MAX_SSH_WORKERS sessions of a status
\* refresh are open at a time.
C24_InFlightWithinPool ==
    /\ pc = "status" => Cardinality(inflight) <= MAX_SSH_WORKERS
    /\ pc \in {"cloud", "projects"} => Cardinality(inflight) <= MAX_CLOUD_WORKERS
    /\ pc = "idle" => inflight = {}

\* a status refresh of three agents: two calls are in flight, the third target
\* waits for a free worker
C24_Witness ==
    /\ pc = "status"
    /\ Len(tasks) = 3
    /\ Cardinality(inflight) = MAX_SSH_WORKERS
    /\ started = 2
    /\ DOMAIN results = {}

(***************************************************************************)
(* Properties of the log readers and of the commands the functions issue,  *)
(* checked under FnSpec.                                                   *)
(***************************************************************************)
LogCalled == fnName \in {"fetch_log", "api_get_logs"} /\ fnOut # <<>>

\* C25: when fetch_log or api_get_logs returns, the session its connect opened
\* has been closed, also when the journalctl command raised.
C25_LogSessionClosed ==
    LogCalled =>
        LET ops == fnOut[1].ops IN
        ("connect:ok" \in {ops[i] : i \in 1..Len(ops)}) => ops[Len(ops)] = "close"

\* the commands that start, stop or restart an agent, as they appear in a trace
StateChangingCommands == {"exec:systemctl", "exec:restart"}

ReaderOrRebindCalled ==
    /\ fnName \in {"get_script_status", "change_script_project", "fetch_log", "api_get_logs"}
    /\ fnOut # <<>>

\* C26: get_script_status, the log readers and change_script_project issue no
\* command that starts, stops or restarts the agent: only control_script does.
C26_OnlyControlChangesRunning ==
    ReaderOrRebindCalled =>
        \A i \in 1..Len(SessionOps) : SessionOps[i] \notin StateChangingCommands

\* the call listed the addresses and asked for the instances, and the
\* instance listing failed
InstanceListingFailed ==
    /\ fnName = "get_project_floating_ips" /\ fnOut # <<>>
    /\ DOMAIN ProjectRecords[fnArg.project] = DOMAIN SampleProject
    /\ ~AuthReplies[fnArg.auth].raised
    /\ NonEmpty(openstack_auth(AuthReplies[fnArg.auth].body).endpoints.network)
    /\ NonEmpty(openstack_auth(AuthReplies[fnArg.auth].body).endpoints.compute)
    /\ ~FipsReplies[fnArg.fips].raised
    /\ ServersReplies[fnArg.servers].raised

\* the listings of instances that succeed
GoodListings == {k \in 1..Len(ServersReplies) : ~ServersReplies[k].raised}

\* C27: when the instance listing of get_project_floating_ips fails, the call
\* returns every listed floating IP with server_name None and no error, and
\* the attached flag of each address is the one the call gives when the
\* listing succeeds.
C27_InstanceListingFailureSwallowed ==
    InstanceListingFailed =>
        LET out == fnOut[1]
            fips == FipsReplies[fnArg.fips].body
        IN /\ out.error = None
           /\ Len(out.ips) = Len(fips)
           /\ \A i \in 1..Len(fips) :
                 /\ out.ips[i].ip = fips[i].floating_ip_address
                 /\ out.ips[i].server_name = None
                 /\ \A k \in GoodListings :
                       LET good == get_project_floating_ips(
                                       ProjectRecords[fnArg.project],
                                       [InventoryReply(fnArg) EXCEPT !.servers = ServersReplies[k]])
                       IN good.ips[i].attached = out.ips[i].attached

\* two addresses, one on a port of an instance the successful listing names,
\* and the instance listing answers 503
C27_Witness ==
    /\ InstanceListingFailed
    /\ fnArg.auth = 1 /\ fnArg.fips = 2 /\ fnArg.servers = 3
    /\ Len(fnOut[1].ips) = 2
    /\ fnOut[1].ips[1].attached /\ ~fnOut[1].ips[2].attached
    /\ fnOut[1].ips[1].server_name = None
    /\ get_project_floating_ips(SampleProject,
           [InventoryReply(fnArg) EXCEPT !.servers = ServersReplies[1]]).ips[1].server_name = "vm1"

(***************************************************************************)
(* Properties of get_script_status and openstack_auth, checked under       *)
(* FnSpec.                                                                 *)
(***************************************************************************)
\* the call read a state file that holds an object and no exception ended it
StateRead ==
    /\ StatusCalled
    /\ ~ConnectReplies[fnArg.connect].raised
    /\ ~ActiveReplies[fnArg.active].raised
    /\ ~EnvReplies[fnArg.env].raised
    /\ ~StateReplies[fnArg.state].raised
    /\ StateReplies[fnArg.state].code = 0
    /\ StateReplies[fnArg.state].out.valid
    /\ IsObj(StateReplies[fnArg.state].out.doc)
    /\ fnOut[1].error = None

\* the allocation buckets of the state file read, in the file's order
BucketsRead ==
    LET allocated == JGet(StateReplies[fnArg.state].out.doc, "allocated", EmptyObj)
    IN IF IsObj(allocated)
       THEN [i \in 1..Len(allocated.kv) |->
                IF allocated.kv[i][2].t = "list" THEN allocated.kv[i][2].items ELSE <<>>]
       ELSE <<>>

\* C28: last_ip is the floating_ip of the final entry of the last non-empty
\* allocation bucket in the order of the state file; empty buckets are skipped,
\* and with no non-empty bucket last_ip is None.
C28_LastIpIsPositional ==
    StateRead =>
        LET buckets == BucketsRead
            filled == {i \in 1..Len(buckets) : buckets[i] # <<>>}
        IN IF filled = {}
           THEN fnOut[1].last_ip = None
           ELSE LET b == CHOOSE i \in filled : \A j \in filled : j <= i
                    last == buckets[b][Len(buckets[b])]
                IN IsObj(last) /\ fnOut[1].last_ip = PyVal(JGet(last, "floating_ip", JNull))

\* two non-empty buckets followed by an empty one: the second bucket's entry
C28_Witness ==
    /\ StateRead
    /\ fnArg.state = 12
    /\ Len(BucketsRead) = 3
    /\ BucketsRead[3] = <<>>
    /\ fnOut[1].last_ip = "10.0.0.4"

\* C29: get_script_status reports running = true exactly when the stripped
\* output of systemctl is-active is "active"; every other output, a non-zero
\* exit of the command, an exception of the command and a failed connect give
\* running = false.
C29_RunningIffActive ==
    StatusCalled =>
        LET connect == ConnectReplies[fnArg.connect]
            active == ActiveReplies[fnArg.active]
            answered == ~connect.raised /\ ~active.raised
        IN /\ fnOut[1].running <=> (answered /\ Strip(active.out) = "active")
           /\ (answered /\ active.code # 0) => ~fnOut[1].running
           /\ ~answered => ~fnOut[1].running

\* the unit is unknown: is-active exits with 4 and prints nothing to stdout
C29_Witness ==
    /\ StatusCalled
    /\ fnArg.connect = 1 /\ fnArg.active = 4
    /\ ActiveReplies[fnArg.active].code = 4
    /\ ~fnOut[1].running
    /\ fnOut[1].error = None

\* the token request of the call was answered with a catalog
Authenticated ==
    /\ fnName = "get_project_floating_ips" /\ fnOut # <<>>
    /\ DOMAIN ProjectRecords[fnArg.project] = DOMAIN SampleProject
    /\ ~AuthReplies[fnArg.auth].raised

\* the urls of the catalog's public RegionOne endpoints of a service type
UsableUrls(catalog, stype) ==
    UNION {{catalog[i].endpoints[j].url :
               j \in {j \in 1..Len(catalog[i].endpoints) :
                         /\ catalog[i].endpoints[j].interface = "public"
                         /\ catalog[i].endpoints[j].region = "RegionOne"}} :
           i \in {i \in 1..Len(catalog) : catalog[i].type = stype}}

\* C30: the endpoint openstack_auth resolves for a service type is the url of
\* a public RegionOne endpoint of that type, never one of another region or
\* interface, and a type without such an endpoint has no entry.
C30_OnlyPublicRegionOne ==
    Authenticated =>
        LET body == AuthReplies[fnArg.auth].body
            endpoints == openstack_auth(body).endpoints
        IN \A stype \in {"network", "compute"} :
              IF UsableUrls(body.catalog, stype) = {}
              THEN endpoints[stype] = None
              ELSE endpoints[stype] \in UsableUrls(body.catalog, stype)

\* a catalog whose network service has an internal, a public RegionOne and a
\* public RegionTwo endpoint, and one whose network service is in RegionTwo only
C30_Witness ==
    /\ Authenticated
    /\ \/ /\ fnArg.auth = 2
          /\ openstack_auth(AuthReplies[2].body).endpoints.network = "net-url"
          /\ fnOut[1].error # "No network endpoint"
       \/ /\ fnArg.auth = 3
          /\ openstack_auth(AuthReplies[3].body).endpoints.network = None
          /\ fnOut[1].error = "No network endpoint"

(***************************************************************************)
(* A refresh that overlaps another writer of the document.                 *)
(***************************************************************************)
\* the keys of the document a refresh of the given kind assigns
RefreshedFields(kind) ==
    CASE kind = "status" -> {"status_cache", "last_update"}
      [] kind = "cloud" -> {"cloud_cache", "cloud_last_update"}
      [] kind = "projects" -> {"projects_cache", "projects_last_update"}
      [] OTHER -> {}

\* the step in which a refresh handler returns and its save reaches the file
RefreshSaved == pc # "idle" /\ pc' = "idle" /\ disk.file = "ok" /\ disk'.file = "ok"

\* C31: the save of a refresh does not revert what another writer stored
\* between the refresh's load and its save: the document it stores differs
\* from the latest stored document only in the refreshed cache and its time
\* stamp
C31_RefreshKeepsOtherWrites ==
    [][RefreshSaved =>
          \A f \in DOMAIN EmptyDoc \ RefreshedFields(pc) : disk'.doc[f] = disk.doc[f]]_vars

(***************************************************************************)
(* What a refresh leaves alone, and what the inventory cache holds.        *)
(***************************************************************************)
\* the step in which a refresh of the given kind returns and saves, nothing
\* having been stored since it loaded the document
RefreshSavedAlone(kind) ==
    /\ pc = kind
    /\ pc' = "idle"
    /\ load_data(disk) = data
    /\ disk'.file = "ok"
    /\ disk' # disk

\* C32: a status refresh that ran alone changes only status_cache and
\* last_update, an inventory refresh that ran alone only projects_cache and
\* projects_last_update: servers, projects, the other caches and the other
\* time stamps are stored as they were
C32_RefreshChangesOnlyItsCache ==
    [][\A kind \in {"status", "projects"} :
          RefreshSavedAlone(kind) =>
              \A f \in DOMAIN EmptyDoc \ RefreshedFields(kind) :
                  disk'.doc[f] = load_data(disk)[f]]_vars

\* an inventory refresh has stored its cache beside hosts, agents, accounts
\* and the status cache of an earlier poll
C32_Witness ==
    /\ resp.op = "api_projects_refresh"
    /\ resp.ok
    /\ disk = Stored(data)
    /\ data.projects_last_update = requests
    /\ data.status_cache # EmptyDict
    /\ data.last_update # NoTime

\* the step in which api_projects_refresh answers without an exception and the
\* file holds the document it worked on
InventoryRefreshed ==
    /\ resp.op = "api_projects_refresh"
    /\ disk = Stored(data)
    /\ (resp.ok \/ data.projects = <<>>)

\* C33: after an inventory refresh the cache holds exactly one record per
\* configured account: as many records as accounts, one under each account's
\* name, none when no account is configured
C33_OneRecordPerAccount ==
    InventoryRefreshed =>
        /\ Cardinality(DOMAIN data.projects_cache) = Len(data.projects)
        /\ DOMAIN data.projects_cache = {data.projects[i].name : i \in 1..Len(data.projects)}

(***************************************************************************)
(* The merged view of added and deleted agents.                            *)
(***************************************************************************)
\* C34: an agent that add_server or add_script has just created was never
\* polled, so the merged view shows it without a status record: it does not
\* inherit the record cached for a deleted agent that had the same identifiers
C34_NewAgentHasNoStatus ==
    [][resp'.op \in {"add_server", "add_script"} =>
          \A k \in ConfiguredKeys(load_data(disk')) \ ConfiguredKeys(load_data(disk)) :
              /\ k \notin DOMAIN load_data(disk').status_cache
              /\ "running" \notin DOMAIN Combined(load_data(disk'), k)]_vars

\* the dashboard has answered
DashboardServed == resp.op = "dashboard"

\* the entry the dashboard shows for a pair of ids
EntriesOf(key) ==
    {i \in 1..Len(resp.scripts_info) :
        <<resp.scripts_info[i].server_id, resp.scripts_info[i].script.id>> = key}

\* C35: the dashboard shows exactly one entry per configured (server, script)
\* pair, with the default fields when the pair has no cached record, and its
\* running count is the number of entries whose cached running flag is true,
\* at most the total
C35_OneEntryPerPair ==
    DashboardServed =>
        LET d == load_data(disk)
            shown == resp.scripts_info
            Flag(i) == IF "running" \in DOMAIN shown[i].status
                       THEN shown[i].status.running ELSE FALSE
        IN /\ \A k \in ConfiguredKeys(d) : Cardinality(EntriesOf(k)) = 1
           /\ Len(shown) = Cardinality(ConfiguredKeys(d))
           /\ resp.total_scripts = Len(shown)
           /\ \A i \in 1..Len(shown) :
                  <<shown[i].server_id, shown[i].script.id>> \notin DOMAIN d.status_cache =>
                      shown[i].status =
                          [floating_ips |->
                               DictGet(DictGet(d.cloud_cache,
                                               <<shown[i].server_id, shown[i].script.id>>,
                                               EmptyDict), "ips", <<>>),
                           account |->
                               DictGet(DictGet(d.cloud_cache,
                                               <<shown[i].server_id, shown[i].script.id>>,
                                               EmptyDict), "account", None),
                           project |->
                               DictGet(DictGet(d.cloud_cache,
                                               <<shown[i].server_id, shown[i].script.id>>,
                                               EmptyDict), "project", None),
                           cloud_error |->
                               DictGet(DictGet(d.cloud_cache,
                                               <<shown[i].server_id, shown[i].script.id>>,
                                               EmptyDict), "error", None)]
           /\ resp.running_scripts = Cardinality({i \in 1..Len(shown) : Flag(i)})
           /\ resp.running_scripts <= resp.total_scripts

\* the dashboard shows two agents, one cached as running and one never polled
C35_Witness ==
    /\ DashboardServed
    /\ resp.total_scripts = 2
    /\ resp.running_scripts = 1
    /\ \E i \in 1..Len(resp.scripts_info) : "running" \notin DOMAIN resp.scripts_info[i].status

(***************************************************************************)
(* What script_action and api_change_project store.                        *)
(***************************************************************************)
\* the step is a script_action or api_change_project request
ControlStep == requests' = requests + 1 /\ resp'.op \in {"script_action", "api_change_project"}

\* the status fields of the records get_script_status can return for the
\* follow-up read of the two handlers
FreshReads ==
    {[f \in StatusFields \cup {"error"} |-> get_script_status(StatusReply(a))[f]] : a \in AfterPollArgs}

\* C36: a failed script_action or api_change_project leaves the stored
\* document as it was; a successful one changes only the status-cache entry
\* of the agent it names and last_update, and the entry carries that agent's
\* ids and the status fields of a read of get_script_status
C36_ControlWritesOneEntry ==
    [][ControlStep =>
          LET d == load_data(disk)
              e == load_data(disk')
          IN /\ ~resp'.ok => disk' = disk
             /\ (resp'.ok /\ disk'.file = "ok" /\ disk' # disk) =>
                  \E k \in ConfiguredKeys(d) :
                      /\ k \in DOMAIN e.status_cache
                      /\ e = [d EXCEPT !.status_cache = (k :> e.status_cache[k]) @@ @,
                                       !.last_update = requests']
                      /\ <<e.status_cache[k].server_id, e.status_cache[k].script_id>> = k
                      /\ [f \in StatusFields \cup {"error"} |-> e.status_cache[k][f]] \in FreshReads]_vars

\* a successful script_action has rewritten one of two cached records
C36_Witness ==
    /\ resp.op = "script_action"
    /\ resp.ok
    /\ disk.file = "ok"
    /\ disk.doc.last_update = requests
    /\ Cardinality(DOMAIN disk.doc.status_cache) = 2

\* C37: the running flag script_action returns equals the running flag of the
\* status record the same request wrote to the cache
C37_ResponseMatchesCache ==
    [][(requests' = requests + 1 /\ resp'.op = "script_action" /\ resp'.ok /\ disk'.file = "ok") =>
          \A k \in DOMAIN load_data(disk').status_cache :
              (k \notin DOMAIN load_data(disk).status_cache
                  \/ load_data(disk).status_cache[k] # load_data(disk').status_cache[k])
              => load_data(disk').status_cache[k].running = resp'.running]_vars

(***************************************************************************)
(* The CLI inventory reader on a failed listing, and a repeated rebind.    *)
(***************************************************************************)
CliCalled == fnName = "get_floating_ips_via_cli" /\ fnOut # <<>>

\* the session was opened and the listing command answered with a non-zero
\* exit code, or with output that json.loads rejects
ListingFailed ==
    /\ ~ConnectReplies[fnArg.connect].raised
    /\ ~ListingReplies[fnArg.listing].raised
    /\ ~EnvReplies[fnArg.env].raised
    /\ \/ ListingReplies[fnArg.listing].code # 0
       \/ /\ ~ListingReplies[fnArg.listing].out.blank
          /\ ~ListingReplies[fnArg.listing].out.valid

\* C38: a failed listing gives a record with no addresses and an error text
C38_FailedListingHasError ==
    (CliCalled /\ ListingFailed) =>
        /\ fnOut[1].ips = <<>>
        /\ fnOut[1].error # None

\* change_script_project was applied twice with the same project, both times
\* with success
ChangedTwice ==
    /\ fnName = "change_script_project"
    /\ Len(fnOut) = 2
    /\ fnOut[1].success
    /\ fnOut[2].success

\* C39: the second of two equal rebinds leaves the credential file with the
\* lines the first one left
C39_RebindIdempotent == ChangedTwice => fnOut[2].file = fnOut[1].file

=============================================================================
